---- MODULE Spec2Model ----
(***************************************************************************)
(* The translation workflow of AfrIDE-demo, as its three front ends        *)
(* implement it:                                                           *)
(*   app = "gradio"  src/app_gradio.py      (event handlers on gr.State)   *)
(*   app = "st"      src/translation_app.py (Streamlit script, re-run top  *)
(*                                           to bottom on every event)     *)
(*   app = "st_dev"  src/app_st_dev.py      (the same script behind the    *)
(*                                           login gate)                   *)
(* A Streamlit action is one whole script run: the gate, the start guard,  *)
(* steps 2, 4, 5, 6, 9, 10 in source order, with the one widget that       *)
(* triggered the run set.  A keyed Streamlit widget keeps the value the    *)
(* user gave it for as long as it is rendered with the same parameters;    *)
(* rendered with another default value it is a new widget and returns that *)
(* default; not rendered in a run, its state is dropped.                   *)
(***************************************************************************)
EXTENDS Naturals, Sequences, FiniteSets, TLC

VARIABLES
    app,          \* which front end runs
    env_key,      \* os.getenv("GEMINI_API_KEY"): "KEY" or None
    ss,           \* st.session_state / the gr.State values, key -> value
    source_file,  \* the value of the source-document upload widget
    manual_edit,  \* the "Manually Edit Translation" text box
    prompts,      \* gradio: the three editable prompt text boxes
    page,         \* the interactive widgets the page shows
    last,         \* history: the last user action and its oracle call
    hist,         \* history: the artifact written last, the inputs of the last start
    download,     \* Streamlit: the file the download button of the page holds
    delivered,    \* the file the last action handed to the user, or none
    langs,        \* the source-language and target-language select boxes
    log,          \* app_st_dev.py: the lines of access_log.txt
    peer,         \* the state of a second session of the same server
    users,        \* app_st_dev.py: users.json, or no such file
    admin         \* app_st_dev.py: the runs of admin_panel, one per admin session

vars == <<app, env_key, ss, source_file, manual_edit, prompts, page, last, hist,
          download, delivered, langs, log, peer, users, admin>>

---------------------------------------------------------------------------
(* Python values *)

NoneV == "<None>"
Raise == "<raise>"

Truthy(v) == v # NoneV /\ v # ""

PyOr(a, b) == IF Truthy(a) THEN a ELSE b

Has(s, k) == k \in DOMAIN s

EmptySession == <<>>

\* s[k] = v
Put(s, k, v) == (k :> v) @@ s

\* s restricted to the keys D
RECURSIVE Keep(_, _)
Keep(s, D) ==
    IF D = {} THEN EmptySession
    ELSE LET k == CHOOSE x \in D : TRUE
         IN (k :> s[k]) @@ Keep(s, D \ {k})

\* del s[k] for every k in K
Del(s, K) == Keep(s, (DOMAIN s) \ K)

---------------------------------------------------------------------------
(* Inputs: the documents a user can upload, the texts the oracle can      *)
(* answer and the texts a user can type.                                   *)

NoFile == "nofile"

\* "alpha" a text file, "beta" a Word document, "gamma" a scanned pdf, "delta"
\* a file of a format the reader has no branch for
Files == {"alpha", "beta", "gamma", "delta"}

\* the files offered to the source-document upload; "beta" and "delta" are
\* uploaded as gold examples only
SourceUploads == {"alpha", "gamma"}

FileExt(f) ==
    CASE f = "alpha" -> "txt"
      [] f = "beta"  -> "docx"
      [] f = "gamma" -> "pdf"
      [] OTHER       -> "rtf"

FileMime(f) ==
    CASE f = "alpha" -> "text/plain"
      [] f = "beta"  -> "application/vnd.openxmlformats-officedocument.wordprocessingml.document"
      [] f = "gamma" -> "application/pdf"
      [] OTHER       -> "application/rtf"

\* the bytes of a .txt file
FileData(f) == IF f = "alpha" THEN "s1" ELSE ""

\* the paragraphs of a .docx, the page texts of a .pdf ("gamma" is a
\* scanned page: no text layer)
FileParts(f) ==
    CASE f = "beta"  -> <<"s2">>
      [] f = "gamma" -> <<"">>
      [] OTHER       -> <<>>

Texts == {"a", "b"}

\* what call_gemini can come back with: a text, an empty response, or None
\* for any exception (timeout, network, rejected key)
OracleAnswers == Texts \cup {"", NoneV}

\* what a user can leave in the manual-edit box
ManualTexts == {"", "a", "m\n\nn"}

\* the select boxes as first rendered: the first option of each list
DefaultLangs == [source_lang |-> "English", target_lang |-> "Portuguese"]

\* the language pairs a user selects
LangChoices == {DefaultLangs, [source_lang |-> "Portuguese", target_lang |-> "English"]}

NoLangs == [source_lang |-> "", target_lang |-> ""]

GoldUploads ==
    { <<<<>>, <<>>>>,
      <<<<"alpha">>, <<"beta">>>>,
      <<<<"delta">>, <<"beta">>>> }

Apps == {"gradio", "st", "st_dev"}

---------------------------------------------------------------------------
(* Document Reader *)

RECURSIVE JoinPages(_)
JoinPages(pages) ==
    IF pages = <<>> THEN ""
    ELSE (IF Head(pages) # "" THEN Head(pages) \o "\n" ELSE "") \o JoinPages(Tail(pages))

RECURSIVE JoinParas(_)
JoinParas(paras) ==
    IF paras = <<>> THEN ""
    ELSE Head(paras) \o "\n" \o JoinParas(Tail(paras))

\* Streamlit: dispatch on the MIME type; an unknown type is reported and
\* reads as None
read_file(f) ==
    CASE FileMime(f) = "text/plain" -> FileData(f)
      [] FileMime(f) = "application/pdf" -> JoinPages(FileParts(f))
      [] FileMime(f) = "application/vnd.openxmlformats-officedocument.wordprocessingml.document"
           \/ FileExt(f) = "docx" -> JoinParas(FileParts(f))
      [] OTHER -> NoneV

\* gradio: dispatch on the file name; an unknown extension raises gr.Error
gr_read_file(f) ==
    IF f = NoFile THEN NoneV
    ELSE CASE FileExt(f) = "txt"  -> FileData(f)
           [] FileExt(f) = "pdf"  -> JoinPages(FileParts(f))
           [] FileExt(f) = "docx" -> JoinParas(FileParts(f))
           [] OTHER -> Raise

---------------------------------------------------------------------------
(* Prompt Builder *)

GoldHeader == "\n\nHere are some 'gold standard' examples of English-to-Portuguese translations to guide your tone and terminology. Follow these examples closely:\n"

GoldBlock(i, en_text, pt_text) ==
    "\n--- Gold Standard Example " \o ToString(i) \o " ---\n"
    \o "[English]:\n" \o en_text \o "\n"
    \o "[Portuguese]:\n" \o pt_text \o "\n"
    \o "--- End Example ---\n"

Min(a, b) == IF a <= b THEN a ELSE b

RECURSIVE GoldLoop(_, _, _, _)
GoldLoop(en_files, pt_files, i, n) ==
    IF i > n THEN ""
    ELSE LET en_text == read_file(en_files[i])
             pt_text == read_file(pt_files[i])
         IN (IF Truthy(en_text) /\ Truthy(pt_text)
             THEN GoldBlock(i, en_text, pt_text) ELSE "")
            \o GoldLoop(en_files, pt_files, i + 1, n)

\* the gold prompt, were lists of different lengths to give no examples
build_gold_prompt_equal_lengths(en_files, pt_files) ==
    IF en_files = <<>> \/ pt_files = <<>> \/ Len(en_files) # Len(pt_files) THEN ""
    ELSE GoldHeader \o GoldLoop(en_files, pt_files, 1, Len(en_files))

build_gold_standard_prompt(en_files, pt_files) ==
    IF en_files = <<>> \/ pt_files = <<>> THEN ""
    ELSE GoldHeader \o GoldLoop(en_files, pt_files, 1, Min(Len(en_files), Len(pt_files)))

RECURSIVE GrGoldLoop(_, _, _, _)
GrGoldLoop(en_files, pt_files, i, n) ==
    IF i > n THEN ""
    ELSE LET en_text == gr_read_file(en_files[i])
             pt_text == gr_read_file(pt_files[i])
             rest    == GrGoldLoop(en_files, pt_files, i + 1, n)
         IN IF en_text = Raise \/ pt_text = Raise \/ rest = Raise THEN Raise
            ELSE (IF Truthy(en_text) /\ Truthy(pt_text)
                  THEN GoldBlock(i, en_text, pt_text) ELSE "") \o rest

\* gradio: the same loop, but an unreadable file raises out of it
gr_build_gold_standard_prompt(en_files, pt_files) ==
    IF en_files = <<>> \/ pt_files = <<>> THEN ""
    ELSE LET body == GrGoldLoop(en_files, pt_files, 1, Min(Len(en_files), Len(pt_files)))
         IN IF body = Raise THEN Raise ELSE GoldHeader \o body

\* A prompt is kept by its template and the texts and language names put in
\* its slots.
EmptyPrompt == [kind |-> "empty", src |-> "", text |-> "", gold |-> "",
                source_lang |-> "", target_lang |-> ""]

CustomPrompt == [kind |-> "custom", src |-> "", text |-> "", gold |-> "",
                 source_lang |-> "", target_lang |-> ""]

generate_step_4_prompt(source_lang, target_lang, gold_prompt, source_text) ==
    [kind |-> "T1", src |-> source_text, text |-> "", gold |-> gold_prompt,
     source_lang |-> source_lang, target_lang |-> target_lang]

generate_step_5_prompt(source_lang, target_lang, gold_prompt, source_text, translation_text) ==
    [kind |-> "T2", src |-> source_text, text |-> translation_text, gold |-> gold_prompt,
     source_lang |-> source_lang, target_lang |-> target_lang]

\* the proofreading template names the target language only
generate_step_6_prompt(target_lang, text_to_proofread) ==
    [kind |-> "T3", src |-> "", text |-> text_to_proofread, gold |-> "",
     source_lang |-> "", target_lang |-> target_lang]

---------------------------------------------------------------------------
(* Document Writer.  A text is written out as its characters, a file name  *)
(* as the characters of the name.                                          *)

\* the characters of the texts of the model
Chars(t) ==
    CASE t = "a"       -> <<"a">>
      [] t = "b"       -> <<"b">>
      [] t = "m\n\nn"  -> <<"m", "\n", "\n", "n">>
      [] OTHER         -> <<>>

\* uploaded_file.name
FileName(f) ==
    CASE f = "alpha" -> <<"a", ".", "1", ".", "t", "x", "t">>
      [] f = "beta"  -> <<"b", ".", "d", "o", "c", "x">>
      [] f = "gamma" -> <<"g", ".", "p", "d", "f">>
      [] OTHER       -> <<"d", ".", "r", "t", "f">>

\* gradio: the path of the temporary copy of the upload
FilePath(f) == <<"/", "u", "/">> \o FileName(f)

\* the positions of character ch in cs
Positions(cs, ch) == {i \in 1..Len(cs) : cs[i] = ch}

Last(S) == CHOOSE i \in S : \A j \in S : j <= i

First(S) == CHOOSE i \in S : \A j \in S : i <= j

\* str.split(sep)
RECURSIVE split(_, _)
split(cs, sep) ==
    IF Positions(cs, sep) = {} THEN <<cs>>
    ELSE LET i == First(Positions(cs, sep))
         IN <<SubSeq(cs, 1, i - 1)>> \o split(SubSeq(cs, i + 1, Len(cs)), sep)

\* os.path.basename
basename(path) ==
    IF Positions(path, "/") = {} THEN path
    ELSE SubSeq(path, Last(Positions(path, "/")) + 1, Len(path))

\* os.path.splitext(name)[0]: up to the last dot, unless the name has no
\* dot after its first character that is not a dot
splitext(name) ==
    LET dots == Positions(name, ".")
    IN IF dots = {} THEN name
       ELSE LET i == Last(dots)
            IN IF \E j \in 1..(i - 1) : name[j] # "." THEN SubSeq(name, 1, i - 1)
               ELSE name

DocxSuffix == <<".", "d", "o", "c", "x">>

\* f"translated_{base_name}.docx"
download_file_name(base_name) ==
    <<"t", "r", "a", "n", "s", "l", "a", "t", "e", "d", "_">> \o base_name \o DocxSuffix

\* Streamlit create_word_document: one paragraph per line of the text
create_word_document(text_content) == split(Chars(text_content), "\n")

\* gradio create_word_document: no paragraph at all for an empty text
gr_create_word_document(text_content) ==
    IF Truthy(text_content) THEN split(Chars(text_content), "\n") ELSE <<>>

\* the random part tempfile.NamedTemporaryFile puts between prefix and suffix
TempTags == {<<"q", "7">>}

\* a file as the user receives it
Docx(name, paragraphs) == [name |-> name, paragraphs |-> paragraphs]

\* no file
NoDocx == Docx(<<>>, <<>>)

---------------------------------------------------------------------------
(* Session Gate (app_st_dev.py) *)

\* the log lines one exploration appends at most
MaxLog == 3

\* load_users(): the account table users.json holds
UserDB == [ana |-> [password |-> "pw", role |-> "user"]]

\* users.json holding the table t
UsersFile(t) == [exists |-> TRUE, table |-> t]

\* os.path.exists(USER_DB_FILE) is false
NoUsersFile == [exists |-> FALSE, table |-> EmptySession]

\* save_users(users): the file is written anew
save_users(t) == UsersFile(t)

\* load_users(): what it returns, and the file as it leaves it: a missing
\* file is created empty
load_users(file) ==
    IF file.exists THEN [table |-> file.table, file |-> file]
    ELSE [table |-> EmptySession, file |-> save_users(EmptySession)]

LoginNames == {"ana", "eve"}

LoginPasswords == {"pw", "bad"}

---------------------------------------------------------------------------
(* One run of the Streamlit script.  c is the run's context: the session   *)
(* state it works on, the widget values it was started with, what it has   *)
(* rendered so far, the oracle call it made, and whether it still runs.    *)

NoWidget == [live |-> FALSE, default |-> "", value |-> ""]

\* no gold example uploaded
NoGold == [en |-> <<>>, pt |-> <<>>]

NoHist == [latest |-> "none", upstream |-> "none", archived |-> FALSE,
           origin |-> NoFile, langs |-> NoLangs, gold |-> NoGold]

\* what ArchiveProject leaves
ArchivedHist == [latest |-> "none", upstream |-> "none", archived |-> TRUE,
                 origin |-> NoFile, langs |-> NoLangs, gold |-> NoGold]

\* elapsed: the seconds since the session's last request
NoInput == [trig |-> "none", en |-> <<>>, pt |-> <<>>, ans |-> NoneV,
            user |-> "", password |-> "", elapsed |-> 0]

Ctx(s, f_in, m_in, l_in, h, lg) ==
    [ss |-> s, file_in |-> f_in, manual_in |-> m_in, manual |-> NoWidget,
     source_lang |-> l_in.source_lang, target_lang |-> l_in.target_lang,
     page |-> {}, called |-> FALSE, prompt |-> EmptyPrompt, ret |-> NoneV,
     status |-> "run", hist |-> h, download |-> NoDocx, log |-> lg]

Render(c, widgets) == [c EXCEPT !.page = @ \cup widgets]

\* st.session_state.<key> = v; st.session_state.final_text = v
WriteArtifact(c, key, v, tag) ==
    [c EXCEPT !.ss = Put(Put(@, key, v), "final_text", v),
              !.hist = [@ EXCEPT !.latest = tag,
                                 !.upstream = CASE tag = "draft" -> "translate"
                                                [] tag = "reviewed" -> "edit"
                                                [] OTHER -> @]]

\* call_gemini: the response text, or None after any exception
call_gemini(c, prompt, ans) ==
    [c EXCEPT !.called = TRUE, !.prompt = prompt, !.ret = ans]

update_activity(s) == Put(s, "last_activity", "now")

\* log_event: one line "[timestamp] username: event" more in access_log.txt
log_event(c, username, event) ==
    [c EXCEPT !.log = Append(@, [username |-> username, event |-> event])]

\* were logout to close the session without clearing it
logout_keeps_session(c) ==
    LET c1 == IF Has(c.ss, "username")
              THEN log_event(c, c.ss["username"], "Logged out") ELSE c
    IN [c1 EXCEPT !.ss = Put(Del(@, {"username", "last_activity"}), "authenticated", FALSE),
                  !.hist = NoHist,
                  !.status = "rerun"]

\* logout(): everything but a non-empty api_key goes; st.rerun()
logout(c) ==
    LET api_key == IF Has(c.ss, "api_key") THEN c.ss["api_key"] ELSE NoneV
        cleared == "authenticated" :> FALSE
        c1      == IF Has(c.ss, "username")
                   THEN log_event(c, c.ss["username"], "Logged out") ELSE c
    IN [c1 EXCEPT !.ss = IF Truthy(api_key) THEN Put(cleared, "api_key", api_key)
                         ELSE cleared,
                  !.hist = NoHist,
                  !.status = "rerun"]

\* were the login to look up the name only
login_ui_name_only(c, inp) ==
    IF inp.trig = "login" /\ inp.user \in DOMAIN load_users(users).table
    THEN [log_event(c, inp.user, "Logged in") EXCEPT
             !.ss = update_activity(
                        Put(Put(@, "authenticated", TRUE), "username", inp.user)),
             !.status = "rerun"]
    ELSE [Render(c, IF inp.trig = "login" THEN {"login", "login_error"} ELSE {"login"})
             EXCEPT !.status = "stop"]

\* login_ui(): the login form; st.stop() unless the login succeeds
login_ui(c, inp) ==
    IF inp.trig = "login"
       /\ inp.user \in DOMAIN load_users(users).table
       /\ load_users(users).table[inp.user].password = inp.password
    THEN [log_event(c, inp.user, "Logged in") EXCEPT
             !.ss = update_activity(
                        Put(Put(@, "authenticated", TRUE), "username", inp.user)),
             !.status = "rerun"]
    ELSE [Render(c, IF inp.trig = "login" THEN {"login", "login_error"} ELSE {"login"})
             EXCEPT !.status = "stop"]

SESSION_TIMEOUT_MIN == 15

\* were the threshold itself an expiry
is_session_expired_at_threshold(s, inp) ==
    \/ ~Has(s, "last_activity")
    \/ inp.elapsed >= SESSION_TIMEOUT_MIN * 60

\* the inactivity test: datetime.now() - last_activity, in seconds, against
\* the threshold
is_session_expired(s, inp) ==
    \/ ~Has(s, "last_activity")
    \/ inp.elapsed > SESSION_TIMEOUT_MIN * 60

\* 1. Authentication Gate
AuthGate(c, inp) ==
    IF app # "st_dev" THEN c
    ELSE LET c0 == IF Has(c.ss, "authenticated") THEN c
                   ELSE [c EXCEPT !.ss = Put(@, "authenticated", FALSE)]
         IN IF c0.ss["authenticated"] /\ is_session_expired(c0.ss, inp) THEN logout(c0)
            ELSE IF ~c0.ss["authenticated"] THEN login_ui(c0, inp)
            ELSE [c0 EXCEPT !.ss = update_activity(@)]

\* 2. App Session State Initialization
SessionInit(c) ==
    IF c.status # "run" \/ Has(c.ss, "project_started") THEN c
    ELSE [c EXCEPT !.ss =
            Put(Put(Put(Put(Put(Put(Put(Put(@,
                "project_started", FALSE),
                "api_key", env_key),
                "source_text", NoneV),
                "gold_standard_prompt", ""),
                "translation_step_4", NoneV),
                "translation_step_5", NoneV),
                "translation_step_6", NoneV),
                "final_text", NoneV)]

\* 3. the sidebar (Logout button) and the Step 1 widgets
Sidebar(c, inp) ==
    IF c.status # "run" THEN c
    ELSE IF app = "st_dev" /\ inp.trig = "logout" THEN logout(Render(c, {"logout"}))
    ELSE Render(c, (IF app = "st_dev" THEN {"logout"} ELSE {})
                   \cup {"upload", "langs", "start"})

\* the start guard, were it to let a project start without a key
StartGuardNoKeyCheck(c, inp) ==
    IF c.status # "run" THEN c
    ELSE IF ~(inp.trig = "start" \/ c.ss["project_started"])
         THEN [c EXCEPT !.status = "end"]
    ELSE IF c.file_in = NoFile THEN [c EXCEPT !.status = "stop"]
    ELSE [c EXCEPT !.ss = Put(@, "project_started", TRUE)]

\* "if start_button or project_started": the two st.stop() guards
StartGuard(c, inp) ==
    IF c.status # "run" THEN c
    ELSE IF ~(inp.trig = "start" \/ c.ss["project_started"])
         THEN [c EXCEPT !.status = "end"]
    ELSE IF ~Truthy(c.ss["api_key"]) THEN [c EXCEPT !.status = "stop"]
    ELSE IF c.file_in = NoFile THEN [c EXCEPT !.status = "stop"]
    ELSE [c EXCEPT !.ss = Put(@, "project_started", TRUE)]

\* Step 2, were it to read the uploaded document in every run
Step2Rereads(c, inp) ==
    IF c.status # "run" THEN c
    ELSE IF ~Has(c.ss, "source_text") THEN [c EXCEPT !.status = "crash"]
    ELSE LET s1 == Put(c.ss, "source_text", read_file(c.file_in))
         IN IF Truthy(s1["source_text"])
            THEN [c EXCEPT !.ss = s1]
            ELSE [c EXCEPT !.ss = s1, !.status = "stop"]

\* Step 2: Preparation.  Reading a session key that does not exist raises.
Step2(c, inp) ==
    IF c.status # "run" THEN c
    ELSE IF ~Has(c.ss, "source_text") THEN [c EXCEPT !.status = "crash"]
    ELSE IF c.ss["source_text"] = NoneV
         THEN LET s1 == Put(Put(c.ss, "source_text", read_file(c.file_in)),
                            "gold_standard_prompt",
                            build_gold_standard_prompt(inp.en, inp.pt))
                  g  == [en |-> inp.en, pt |-> inp.pt]
              IN IF Truthy(s1["source_text"])
                 THEN [c EXCEPT !.ss = s1,
                                !.hist = [@ EXCEPT !.origin = c.file_in,
                                                   !.langs = [source_lang |-> c.source_lang,
                                                              target_lang |-> c.target_lang],
                                                   !.gold = g]]
                 ELSE [c EXCEPT !.ss = s1, !.hist = [@ EXCEPT !.gold = g],
                                !.status = "stop"]
    ELSE c

\* Step 4: Translation
Step4(c, inp) ==
    IF c.status # "run" THEN c
    ELSE LET c1 == Render(c, {"step4_btn"})
         IN IF inp.trig = "step4" \/ Truthy(c1.ss["translation_step_4"])
            THEN IF ~Truthy(c1.ss["translation_step_4"])
                 THEN LET c2 == call_gemini(c1,
                                    generate_step_4_prompt(c1.source_lang, c1.target_lang,
                                                           c1.ss["gold_standard_prompt"],
                                                           c1.ss["source_text"]),
                                    inp.ans)
                      IN IF Truthy(c2.ret)
                         THEN WriteArtifact(c2, "translation_step_4", c2.ret, "draft")
                         ELSE c2
                 ELSE c1
            ELSE c1

\* Step 5, the button: Ask Gemini to Edit/Review
Step5Button(c, inp) ==
    IF inp.trig = "step5"
    THEN LET c2 == call_gemini(c,
                       generate_step_5_prompt(c.source_lang, c.target_lang,
                                              c.ss["gold_standard_prompt"],
                                              c.ss["source_text"],
                                              c.ss["translation_step_4"]),
                       inp.ans)
         IN IF Truthy(c2.ret)
            THEN WriteArtifact(c2, "translation_step_5", c2.ret, "reviewed")
            ELSE c2
    ELSE c

\* Step 5, the text area: what st.text_area(..., default_text, key="manual_edit")
\* returns in this run
TextAreaValue(c, default_text) ==
    IF c.manual_in.live /\ c.manual_in.default = default_text
    THEN c.manual_in.value
    ELSE default_text

\* Step 5, the manual edit, were it to discard the proofread text
Step5ManualDropsProofread(c) ==
    LET default_text == PyOr(c.ss["translation_step_5"], c.ss["translation_step_4"])
        manual_text  == TextAreaValue(c, default_text)
        c1 == [Render(c, {"manual"}) EXCEPT
                  !.manual = [live |-> TRUE, default |-> default_text,
                              value |-> manual_text]]
    IN IF manual_text # default_text
       THEN [WriteArtifact(c1, "translation_step_5", manual_text, "reviewed") EXCEPT
                !.ss = Put(@, "translation_step_6", NoneV)]
       ELSE c1

\* Step 5, the manual edit
Step5Manual(c) ==
    LET default_text == PyOr(c.ss["translation_step_5"], c.ss["translation_step_4"])
        manual_text  == TextAreaValue(c, default_text)
        c1 == [Render(c, {"manual"}) EXCEPT
                  !.manual = [live |-> TRUE, default |-> default_text,
                              value |-> manual_text]]
    IN IF manual_text # default_text
       THEN WriteArtifact(c1, "translation_step_5", manual_text, "reviewed")
       ELSE c1

\* Step 5: Editing
Step5(c, inp) ==
    IF c.status # "run" THEN c
    ELSE IF Truthy(c.ss["translation_step_4"])
         THEN Step5Manual(Step5Button(Render(c, {"step5_btn"}), inp))
         ELSE c

\* Step 6: Proofreading / QA
Step6(c, inp) ==
    IF c.status # "run" THEN c
    ELSE LET current_text_for_proofread ==
                 PyOr(c.ss["translation_step_5"], c.ss["translation_step_4"])
         IN IF Truthy(current_text_for_proofread)
            THEN LET c1 == Render(c, {"step6_btn"})
                 IN IF inp.trig = "step6"
                    THEN LET c2 == call_gemini(c1,
                                       generate_step_6_prompt(c1.target_lang,
                                                              current_text_for_proofread),
                                       inp.ans)
                         IN IF Truthy(c2.ret)
                            THEN WriteArtifact(c2, "translation_step_6", c2.ret, "proofread")
                            ELSE c2
                    ELSE c1
            ELSE c

\* Steps 7-9: Delivery (the download button; app_st_dev.py logs the
\* completion once)
Step9(c) ==
    IF c.status # "run" THEN c
    ELSE IF Truthy(c.ss["final_text"])
         THEN LET c1 == IF app = "st_dev" /\ ~Has(c.ss, "log_event_fired")
                        THEN [log_event(c, c.ss["username"],
                                        "Completed translation " \o c.source_lang
                                            \o "->" \o c.target_lang)
                              EXCEPT !.ss = Put(@, "log_event_fired", TRUE)]
                        ELSE c
                  doc_data  == create_word_document(c1.ss["final_text"])
                  base_name == splitext(FileName(c1.file_in))
              IN [Render(c1, {"download"}) EXCEPT
                     !.download = Docx(download_file_name(base_name), doc_data)]
         ELSE c

\* Step 10, were the archive to forget who is logged in
Step10DropsIdentity(c, inp) ==
    IF c.status # "run" THEN c
    ELSE LET c1 == Render(c, {"archive"})
         IN IF inp.trig = "archive"
            THEN IF app = "st_dev"
                 THEN [log_event(c1, c1.ss["username"],
                                 "Submitted feedback and archived project.") EXCEPT
                         !.ss = Put(Del(@, DOMAIN @ \ {"api_key", "authenticated",
                                                       "last_activity"}),
                                    "project_started", FALSE),
                         !.hist = ArchivedHist,
                         !.status = "rerun"]
                 ELSE [c1 EXCEPT
                         !.ss = "api_key" :> @["api_key"],
                         !.hist = ArchivedHist,
                         !.status = "rerun"]
            ELSE [c1 EXCEPT !.status = "end"]

\* Step 10: Feedback and archive; st.rerun()
Step10(c, inp) ==
    IF c.status # "run" THEN c
    ELSE LET c1 == Render(c, {"archive"})
         IN IF inp.trig = "archive"
            THEN IF app = "st_dev"
                 THEN [log_event(c1, c1.ss["username"],
                                 "Submitted feedback and archived project.") EXCEPT
                         !.ss = Put(Del(@, DOMAIN @ \ {"api_key", "username",
                                                       "authenticated", "last_activity"}),
                                    "project_started", FALSE),
                         !.hist = ArchivedHist,
                         !.status = "rerun"]
                 ELSE [c1 EXCEPT
                         !.ss = "api_key" :> @["api_key"],
                         !.hist = ArchivedHist,
                         !.status = "rerun"]
            ELSE [c1 EXCEPT !.status = "end"]

\* the script, top to bottom
ScriptPass(c, inp) ==
    LET c1 == AuthGate(c, inp)
        c2 == SessionInit(c1)
        c3 == Sidebar(c2, inp)
        c4 == StartGuard(c3, inp)
        c5 == Step2(c4, inp)
        c6 == Step4(c5, inp)
        c7 == Step5(c6, inp)
        c8 == Step6(c7, inp)
        c9 == Step9(c8)
    IN Step10(c9, inp)

\* the run st.rerun() starts: no widget is triggered in it
Rerun(r1, f_in, m_in, l_in) ==
    IF r1.status = "rerun"
    THEN [ScriptPass(Ctx(r1.ss, f_in, m_in, l_in, r1.hist, r1.log), NoInput) EXCEPT
             !.called = r1.called, !.prompt = r1.prompt, !.ret = r1.ret]
    ELSE r1

\* one event: the script runs, and runs again if it ends in st.rerun()
Script(s, f_in, m_in, l_in, h, lg, inp) ==
    Rerun(ScriptPass(Ctx(s, f_in, m_in, l_in, h, lg), inp), f_in, m_in, l_in)

---------------------------------------------------------------------------
(* The gradio event handlers.  A handler that raises gr.Error, or returns  *)
(* {}, updates no component.                                               *)

GrKeys == {"api_key", "source_text", "gold_standard_prompt", "source_file_obj",
           "translation_step_4", "translation_step_5", "translation_step_6",
           "final_text"}

\* the State variables as gr.Blocks defines them
GrInitState ==
    [k \in GrKeys |-> IF k = "gold_standard_prompt" THEN "" ELSE
                      IF k = "source_file_obj" THEN NoFile ELSE NoneV]

NoPrompts == [p4 |-> EmptyPrompt, p5 |-> EmptyPrompt, p6 |-> EmptyPrompt]

\* Step 1 enabled, the accordions of steps 2-10 hidden
GrInquiryPage == {"upload", "langs", "start"}

\* Step 1 disabled, the accordions visible
GrWorkflowPage == {"prompt_boxes", "step4_btn", "step5_btn", "manual",
                   "step6_btn", "download", "archive"}

\* call_gemini: raises without a key, before it calls the API, and on any
\* exception of the API; generate_content rejects an empty prompt
gr_call_gemini(api_key, prompt, ans) ==
    IF ~Truthy(api_key) THEN Raise
    ELSE IF prompt.kind = "empty" \/ ans = NoneV THEN Raise
    ELSE ans

Record(op, text, called, prompt, ret, status) ==
    [op |-> op, text |-> text, called |-> called, prompt |-> prompt,
     ret |-> ret, status |-> status]

\* were the session state one dictionary of the server, a request would
\* write the other session's state as well
SharedSession == peer' = [peer EXCEPT !.ss = ss']

\* a request is served on the state of its own session: st.session_state
\* and the widgets of the page, the gr.State values the handler is given
OwnSession == UNCHANGED peer

\* the translation page runs no part of admin_panel
NoAdmin == UNCHANGED <<users, admin>>

\* the handler returns no file
NoDelivery ==
    /\ delivered' = NoDocx
    /\ UNCHANGED download

GrError(op) ==
    /\ last' = Record(op, "", FALSE, EmptyPrompt, NoneV, "error")
    /\ UNCHANGED <<ss, manual_edit, prompts, page, source_file>>

start_project(en_files, pt_files) ==
    /\ app = "gradio"
    /\ "start" \in page
    /\ LET api_key     == env_key
           source_text == gr_read_file(source_file)
           gold_prompt == gr_build_gold_standard_prompt(en_files, pt_files)
       IN IF \/ ~Truthy(api_key)
             \/ source_file = NoFile
             \/ source_text = Raise
             \/ gold_prompt = Raise
             \/ ~Truthy(source_text)
          THEN /\ GrError("StartProject")
               /\ hist' = [hist EXCEPT !.gold = [en |-> en_files, pt |-> pt_files]]
          ELSE /\ ss' = [ss EXCEPT !["api_key"] = api_key,
                                   !["source_text"] = source_text,
                                   !["gold_standard_prompt"] = gold_prompt,
                                   !["source_file_obj"] = source_file]
               /\ prompts' = [prompts EXCEPT
                                !.p4 = generate_step_4_prompt(langs.source_lang,
                                                              langs.target_lang,
                                                              gold_prompt, source_text)]
               /\ page' = GrWorkflowPage
               /\ last' = Record("StartProject", "", FALSE, EmptyPrompt, NoneV, "done")
               /\ hist' = [hist EXCEPT !.origin = source_file, !.langs = langs,
                                        !.gold = [en |-> en_files, pt |-> pt_files]]
               /\ UNCHANGED <<manual_edit, source_file>>
    /\ UNCHANGED <<app, env_key, langs, log>>
    /\ NoDelivery
    /\ OwnSession
    /\ NoAdmin

run_step_4(ans) ==
    /\ app = "gradio"
    /\ "step4_btn" \in page
    /\ LET translation == gr_call_gemini(ss["api_key"], prompts.p4, ans)
       IN /\ last' = Record("RunTranslate", "", Truthy(ss["api_key"]), prompts.p4,
                            IF translation = Raise THEN NoneV ELSE translation,
                            IF translation = Raise THEN "error" ELSE "done")
          /\ IF translation # Raise /\ Truthy(translation)
             THEN /\ ss' = [ss EXCEPT !["translation_step_4"] = translation,
                                      !["final_text"] = translation]
                  /\ manual_edit' = [manual_edit EXCEPT !.value = translation]
                  /\ prompts' = [prompts EXCEPT !.p5 =
                                   generate_step_5_prompt(langs.source_lang,
                                                          langs.target_lang,
                                                          ss["gold_standard_prompt"],
                                                          ss["source_text"], translation)]
                  /\ hist' = [hist EXCEPT !.latest = "draft", !.upstream = "translate"]
             ELSE UNCHANGED <<ss, manual_edit, prompts, hist>>
    /\ UNCHANGED <<app, env_key, langs, log, source_file, page>>
    /\ NoDelivery
    /\ OwnSession
    /\ NoAdmin

run_step_5_ai(ans) ==
    /\ app = "gradio"
    /\ "step5_btn" \in page
    /\ LET edited_translation == gr_call_gemini(ss["api_key"], prompts.p5, ans)
       IN /\ last' = Record("RunEdit", "", Truthy(ss["api_key"]), prompts.p5,
                            IF edited_translation = Raise THEN NoneV ELSE edited_translation,
                            IF edited_translation = Raise THEN "error" ELSE "done")
          /\ IF edited_translation # Raise /\ Truthy(edited_translation)
             THEN /\ ss' = [ss EXCEPT !["translation_step_5"] = edited_translation,
                                      !["final_text"] = edited_translation]
                  /\ manual_edit' = [manual_edit EXCEPT !.value = edited_translation]
                  /\ prompts' = [prompts EXCEPT !.p6 =
                                   generate_step_6_prompt(langs.target_lang,
                                                          edited_translation)]
                  /\ hist' = [hist EXCEPT !.latest = "reviewed", !.upstream = "edit"]
             ELSE UNCHANGED <<ss, manual_edit, prompts, hist>>
    /\ UNCHANGED <<app, env_key, langs, log, source_file, page>>
    /\ NoDelivery
    /\ OwnSession
    /\ NoAdmin

on_manual_edit(manual_text) ==
    /\ app = "gradio"
    /\ "manual" \in page
    /\ ss' = [ss EXCEPT !["final_text"] = manual_text]
    /\ manual_edit' = [manual_edit EXCEPT !.value = manual_text]
    /\ prompts' = [prompts EXCEPT
                     !.p6 = generate_step_6_prompt(langs.target_lang, manual_text)]
    /\ hist' = [hist EXCEPT !.upstream = "edit"]
    /\ last' = Record("ManualEdit", manual_text, FALSE, EmptyPrompt, NoneV, "done")
    /\ UNCHANGED <<app, env_key, langs, log, source_file, page>>
    /\ NoDelivery
    /\ OwnSession
    /\ NoAdmin

run_step_6(ans) ==
    /\ app = "gradio"
    /\ "step6_btn" \in page
    /\ LET proofread_text == gr_call_gemini(ss["api_key"], prompts.p6, ans)
       IN /\ last' = Record("RunProofread", "", Truthy(ss["api_key"]), prompts.p6,
                            IF proofread_text = Raise THEN NoneV ELSE proofread_text,
                            IF proofread_text = Raise THEN "error" ELSE "done")
          /\ IF proofread_text # Raise /\ Truthy(proofread_text)
             THEN /\ ss' = [ss EXCEPT !["translation_step_6"] = proofread_text,
                                      !["final_text"] = proofread_text]
                  /\ hist' = [hist EXCEPT !.latest = "proofread"]
             ELSE UNCHANGED <<ss, hist>>
    /\ UNCHANGED <<app, env_key, langs, log, source_file, page, manual_edit, prompts>>
    /\ NoDelivery
    /\ OwnSession
    /\ NoAdmin

archive_project ==
    /\ app = "gradio"
    /\ "archive" \in page
    /\ ss' = GrInitState
    /\ source_file' = NoFile
    /\ manual_edit' = NoWidget
    /\ prompts' = NoPrompts
    /\ page' = GrInquiryPage
    /\ hist' = ArchivedHist
    /\ last' = Record("ArchiveProject", "", FALSE, EmptyPrompt, NoneV, "done")
    /\ langs' = DefaultLangs
    /\ UNCHANGED <<app, env_key, log>>
    /\ NoDelivery
    /\ OwnSession
    /\ NoAdmin

\* Prepare Download, were it to write the file without looking at final_text
download_docx_unguarded(tag) ==
    /\ app = "gradio"
    /\ "download" \in page
    /\ LET base_name == splitext(basename(FilePath(ss["source_file_obj"])))
           file      == Docx(download_file_name(base_name) \o tag \o DocxSuffix,
                             gr_create_word_document(ss["final_text"]))
       IN /\ delivered' = file
          /\ last' = Record("PrepareDownload", "", FALSE, EmptyPrompt, NoneV, "done")
    /\ UNCHANGED <<app, env_key, langs, log, ss, source_file, manual_edit, prompts, page,
                   hist, download>>
    /\ OwnSession
    /\ NoAdmin

\* Step 9: Prepare Download.  A warning and no file without a final text;
\* the file returned goes to the download widget, which no handler reads.
download_docx(tag) ==
    /\ app = "gradio"
    /\ "download" \in page
    /\ LET final_text_state == ss["final_text"]
           base_name == splitext(basename(FilePath(ss["source_file_obj"])))
           prefix    == download_file_name(base_name)
           doc_data  == gr_create_word_document(final_text_state)
           file      == IF ~Truthy(final_text_state) THEN NoDocx
                        ELSE Docx(prefix \o tag \o DocxSuffix, doc_data)
       IN /\ delivered' = file
          /\ last' = Record("PrepareDownload", "", FALSE, EmptyPrompt, NoneV,
                            IF file = NoDocx THEN "warning" ELSE "done")
    /\ UNCHANGED <<app, env_key, langs, log, ss, source_file, manual_edit, prompts, page,
                   hist, download>>
    /\ OwnSession
    /\ NoAdmin

\* the user picks or removes the source document (Step 1 is interactive)
GrUpload(f) ==
    /\ app = "gradio"
    /\ "upload" \in page
    /\ f # source_file
    /\ source_file' = f
    /\ last' = Record("Upload", "", FALSE, EmptyPrompt, NoneV, "done")
    /\ UNCHANGED <<app, env_key, langs, log, ss, manual_edit, prompts, page, hist>>
    /\ NoDelivery
    /\ OwnSession
    /\ NoAdmin

\* the user selects another language pair (Step 1 is interactive)
GrSelectLang(l) ==
    /\ app = "gradio"
    /\ "langs" \in page
    /\ l # langs
    /\ langs' = l
    /\ last' = Record("SelectLang", "", FALSE, EmptyPrompt, NoneV, "done")
    /\ UNCHANGED <<app, env_key, log, ss, source_file, manual_edit, prompts, page,
                   hist>>
    /\ NoDelivery
    /\ OwnSession
    /\ NoAdmin

\* the user types into one of the three prompt boxes ("Editable")
GrEditPrompt(box) ==
    /\ app = "gradio"
    /\ "prompt_boxes" \in page
    /\ prompts[box] # CustomPrompt
    /\ prompts' = [prompts EXCEPT ![box] = CustomPrompt]
    /\ last' = Record("EditPrompt", "", FALSE, EmptyPrompt, NoneV, "done")
    /\ UNCHANGED <<app, env_key, langs, log, ss, source_file, manual_edit, page, hist>>
    /\ NoDelivery
    /\ OwnSession
    /\ NoAdmin

---------------------------------------------------------------------------
(* The Streamlit actions: the user touches one widget of the page and the  *)
(* script runs.                                                            *)

IsStreamlit == app \in {"st", "st_dev"}

\* the state a script run leaves; a widget it did not render is gone
StApply(r, op, text, f_new, l_new) ==
    /\ Len(r.log) <= MaxLog
    /\ ss' = r.ss
    /\ log' = r.log
    /\ source_file' = IF "upload" \in r.page THEN f_new ELSE NoFile
    /\ langs' = IF "langs" \in r.page THEN l_new ELSE DefaultLangs
    /\ manual_edit' = r.manual
    /\ page' = r.page
    /\ hist' = r.hist
    /\ last' = Record(op, text, r.called, r.prompt, r.ret, r.status)
    /\ download' = r.download
    /\ delivered' = IF op = "PrepareDownload" THEN download ELSE NoDocx
    /\ UNCHANGED <<app, env_key, prompts>>
    /\ OwnSession
    /\ NoAdmin

StRun(op, text, f_new, m_new, l_new, inp) ==
    StApply(Script(ss, f_new, m_new, l_new, hist, log, inp), op, text, f_new, l_new)

StUpload(f) ==
    /\ IsStreamlit
    /\ "upload" \in page
    /\ f # source_file
    /\ StRun("Upload", "", f, manual_edit, langs, NoInput)

StStartProject(en_files, pt_files) ==
    /\ IsStreamlit
    /\ "start" \in page
    /\ StRun("StartProject", "", source_file, manual_edit, langs,
             [NoInput EXCEPT !.trig = "start", !.en = en_files, !.pt = pt_files])

StRunTranslate(ans) ==
    /\ IsStreamlit
    /\ "step4_btn" \in page
    /\ StRun("RunTranslate", "", source_file, manual_edit, langs,
             [NoInput EXCEPT !.trig = "step4", !.ans = ans])

StRunEdit(ans) ==
    /\ IsStreamlit
    /\ "step5_btn" \in page
    /\ StRun("RunEdit", "", source_file, manual_edit, langs,
             [NoInput EXCEPT !.trig = "step5", !.ans = ans])

\* the user changes the text of the manual-edit box
StManualEdit(manual_text) ==
    /\ IsStreamlit
    /\ "manual" \in page
    /\ manual_text # manual_edit.value
    /\ StRun("ManualEdit", manual_text, source_file,
             [manual_edit EXCEPT !.value = manual_text], langs, NoInput)

StRunProofread(ans) ==
    /\ IsStreamlit
    /\ "step6_btn" \in page
    /\ StRun("RunProofread", "", source_file, manual_edit, langs,
             [NoInput EXCEPT !.trig = "step6", !.ans = ans])

StArchiveProject ==
    /\ IsStreamlit
    /\ "archive" \in page
    /\ StRun("ArchiveProject", "", source_file, manual_edit, langs,
             [NoInput EXCEPT !.trig = "archive"])

\* the download button hands over the file the page holds, and the script
\* runs
StPrepareDownload ==
    /\ IsStreamlit
    /\ "download" \in page
    /\ StRun("PrepareDownload", "", source_file, manual_edit, langs, NoInput)

\* the user selects another language pair, and the script runs
StSelectLang(l) ==
    /\ IsStreamlit
    /\ "langs" \in page
    /\ l # langs
    /\ StRun("SelectLang", "", source_file, manual_edit, l, NoInput)

\* any other widget event (the slider, the feedback box): the script runs
\* with no button set
StRefresh ==
    /\ IsStreamlit
    /\ StRun("Refresh", "", source_file, manual_edit, langs, NoInput)

StLogin(user, password) ==
    /\ app = "st_dev"
    /\ "login" \in page
    /\ StRun("Login", "", source_file, manual_edit, langs,
             [NoInput EXCEPT !.trig = "login", !.user = user, !.password = password])

StLogout ==
    /\ app = "st_dev"
    /\ "logout" \in page
    /\ StRun("Logout", "", source_file, manual_edit, langs,
             [NoInput EXCEPT !.trig = "logout"])

\* the idle times a request is tried with: the threshold, and a second more
IdleTimes == {SESSION_TIMEOUT_MIN * 60, SESSION_TIMEOUT_MIN * 60 + 1}

\* what the request after the idle time is: a plain reload, or a button
IdleTriggers == {"none", "step4", "archive"}

\* the button that sends the trigger
ButtonOf(trig) ==
    CASE trig = "step4" -> "step4_btn" [] trig = "archive" -> "archive" [] OTHER -> "logout"

\* a request on an authenticated session idle for elapsed seconds; past the
\* threshold any button may have sent it, within the threshold the buttons
\* are the other actions and the reload stands here
StSessionTimeout(elapsed, trig) ==
    /\ app = "st_dev"
    /\ Has(ss, "authenticated") /\ ss["authenticated"]
    /\ ButtonOf(trig) \in page
    /\ elapsed > SESSION_TIMEOUT_MIN * 60 \/ trig = "none"
    /\ StRun(IF elapsed > SESSION_TIMEOUT_MIN * 60 THEN "Timeout" ELSE "Refresh", "",
             source_file, manual_edit, langs,
             [NoInput EXCEPT !.trig = trig, !.elapsed = elapsed, !.ans = "a"])

---------------------------------------------------------------------------

\* the sessions that have the admin panel open
AdminSessions == {1, 2}

\* a run of admin_panel that is not between load_users and st.rerun()
IdleAdmin == [pc |-> "idle", users |-> EmptySession, new_user |-> "", status |-> "none"]

\* what one session has of its own: the session state, the widgets and page
\* of its browser tab, and its history
SessionOf(sid, s, f, m, p, pg, l, h, d, dv, lg) ==
    [sid |-> sid, ss |-> s, source_file |-> f, manual_edit |-> m, prompts |-> p,
     page |-> pg, last |-> l, hist |-> h, download |-> d, delivered |-> dv, langs |-> lg]

\* the server turns to a request of the other session
Switch ==
    /\ ss' = peer.ss
    /\ source_file' = peer.source_file
    /\ manual_edit' = peer.manual_edit
    /\ prompts' = peer.prompts
    /\ page' = peer.page
    /\ last' = peer.last
    /\ hist' = peer.hist
    /\ download' = peer.download
    /\ delivered' = peer.delivered
    /\ langs' = peer.langs
    /\ peer' = SessionOf(3 - peer.sid, ss, source_file, manual_edit, prompts, page, last,
                         hist, download, delivered, langs)
    /\ UNCHANGED <<app, env_key, log>>
    /\ NoAdmin

\* the page as first served: gr.Blocks as defined; the Streamlit script run
\* once on an empty session; a second session as new as the first
Init ==
    /\ app \in Apps
    /\ env_key \in {"KEY", NoneV}
    /\ prompts = NoPrompts
    /\ source_file = NoFile
    /\ manual_edit = NoWidget
    /\ hist = NoHist
    /\ download = NoDocx
    /\ delivered = NoDocx
    /\ langs = DefaultLangs
    /\ log = <<>>
    /\ users = UsersFile(UserDB)
    /\ admin = [i \in AdminSessions |-> IdleAdmin]
    /\ last = Record("Load", "", FALSE, EmptyPrompt, NoneV, "done")
    /\ IF app = "gradio"
       THEN ss = GrInitState /\ page = GrInquiryPage
       ELSE /\ ss = Script(EmptySession, NoFile, NoWidget, DefaultLangs, NoHist, <<>>,
                           NoInput).ss
            /\ page = Script(EmptySession, NoFile, NoWidget, DefaultLangs, NoHist, <<>>,
                             NoInput).page
    /\ peer = SessionOf(2, ss, source_file, manual_edit, prompts, page, last, hist,
                        download, delivered, langs)

Next ==
    \/ \E g \in GoldUploads : start_project(g[1], g[2])
    \/ \E ans \in OracleAnswers : run_step_4(ans)
    \/ \E ans \in OracleAnswers : run_step_5_ai(ans)
    \/ \E t \in ManualTexts : on_manual_edit(t)
    \/ \E ans \in OracleAnswers : run_step_6(ans)
    \/ archive_project
    \/ \E tag \in TempTags : download_docx(tag)
    \/ \E f \in SourceUploads \cup {NoFile} : GrUpload(f)
    \/ \E l \in LangChoices : GrSelectLang(l)
    \/ \E box \in {"p4", "p5", "p6"} : GrEditPrompt(box)
    \/ \E f \in SourceUploads \cup {NoFile} : StUpload(f)
    \/ \E g \in GoldUploads : StStartProject(g[1], g[2])
    \/ \E ans \in OracleAnswers : StRunTranslate(ans)
    \/ \E ans \in OracleAnswers : StRunEdit(ans)
    \/ \E t \in ManualTexts : StManualEdit(t)
    \/ \E ans \in OracleAnswers : StRunProofread(ans)
    \/ StArchiveProject
    \/ StPrepareDownload
    \/ \E l \in LangChoices : StSelectLang(l)
    \/ StRefresh
    \/ \E u \in LoginNames, p \in LoginPasswords : StLogin(u, p)
    \/ StLogout
    \/ \E elapsed \in IdleTimes, trig \in IdleTriggers : StSessionTimeout(elapsed, trig)

Spec == Init /\ [][Next]_vars

---------------------------------------------------------------------------
(* The authenticated front end alone: app_st_dev.py, with every event its   *)
(* page can send.                                                           *)

GateInit == Init /\ app = "st_dev"

GateNext ==
    \/ \E f \in SourceUploads \cup {NoFile} : StUpload(f)
    \/ \E g \in GoldUploads : StStartProject(g[1], g[2])
    \/ \E ans \in OracleAnswers : StRunTranslate(ans)
    \/ \E ans \in OracleAnswers : StRunEdit(ans)
    \/ \E t \in ManualTexts : StManualEdit(t)
    \/ \E ans \in OracleAnswers : StRunProofread(ans)
    \/ StArchiveProject
    \/ StPrepareDownload
    \/ \E l \in LangChoices : StSelectLang(l)
    \/ StRefresh
    \/ \E u \in LoginNames, p \in LoginPasswords : StLogin(u, p)
    \/ StLogout
    \/ \E elapsed \in IdleTimes, trig \in IdleTriggers : StSessionTimeout(elapsed, trig)

GateSpec == GateInit /\ [][GateNext]_vars

---------------------------------------------------------------------------
(* Two sessions of one server: the requests of two browser tabs, served one *)
(* at a time in any order.  The access log and the environment are the      *)
(* server's; everything else is a session's own.                            *)

TwoInit == Init

TwoNext ==
    \/ Switch
    \/ GrUpload("alpha")
    \/ start_project(<<>>, <<>>)
    \/ \E ans \in Texts : run_step_4(ans)
    \/ \E ans \in Texts : run_step_5_ai(ans)
    \/ archive_project
    \/ StUpload("alpha")
    \/ StStartProject(<<>>, <<>>)
    \/ \E ans \in Texts : StRunTranslate(ans)
    \/ \E ans \in Texts : StRunEdit(ans)
    \/ StArchiveProject
    \/ StLogin("ana", "pw")
    \/ StLogout

TwoSpec == TwoInit /\ [][TwoNext]_vars

---------------------------------------------------------------------------
(* The gold examples: the first Start Project of a session, with every     *)
(* list of up to MaxGold gold files on either side.                         *)

\* the gold files uploaded on one side, at most
MaxGold == 2

\* the lists of at most n files
RECURSIVE FileLists(_)
FileLists(n) ==
    IF n = 0 THEN {<<>>}
    ELSE FileLists(n - 1)
         \cup {Append(l, f) : l \in {x \in FileLists(n - 1) : Len(x) = n - 1}, f \in Files}

GoldLists == FileLists(MaxGold)

GoldInit == Init

\* Start Project has not been pressed in this session
FirstPress == last.op # "StartProject" /\ hist.gold = NoGold

GoldNext ==
    \/ \E f \in SourceUploads \cup {NoFile} : GrUpload(f)
    \/ \E f \in SourceUploads \cup {NoFile} : StUpload(f)
    \/ FirstPress /\ \E en_files \in GoldLists, pt_files \in GoldLists :
                       start_project(en_files, pt_files)
    \/ FirstPress /\ \E en_files \in GoldLists, pt_files \in GoldLists :
                       StStartProject(en_files, pt_files)
    \/ \E u \in LoginNames, p \in LoginPasswords : StLogin(u, p)

GoldSpec == GoldInit /\ [][GoldNext]_vars

---------------------------------------------------------------------------
(* The Project of the specification, read off the session *)

Field(k) == IF Has(ss, k) THEN ss[k] ELSE NoneV

draft_translation == Field("translation_step_4")

reviewed_translation == Field("translation_step_5")

proofread_translation == Field("translation_step_6")

final_text == Field("final_text")

source_text == Field("source_text")

TypeOK ==
    /\ app \in Apps
    /\ page \subseteq {"login", "login_error", "logout", "upload", "langs", "start", "prompt_boxes", "step4_btn",
                       "step5_btn", "manual", "step6_btn", "download", "archive"}
    /\ source_file \in Files \cup {NoFile}
    /\ hist.latest \in {"none", "draft", "reviewed", "proofread"}
    /\ Has(ss, "source_text") =>
          \A k \in {"gold_standard_prompt", "translation_step_4", "translation_step_5",
                    "translation_step_6", "final_text", "api_key"} : Has(ss, k)

---------------------------------------------------------------------------
(* The claims *)

\* the project has left Inquiry
Started ==
    IF app = "gradio" THEN "start" \notin page
    ELSE Has(ss, "project_started") /\ ss["project_started"]

Artifacts ==
    <<draft_translation, reviewed_translation, proofread_translation, final_text>>

\* the artifact written last
LatestArtifact ==
    CASE hist.latest = "draft"     -> draft_translation
      [] hist.latest = "reviewed"  -> reviewed_translation
      [] hist.latest = "proofread" -> proofread_translation
      [] OTHER                     -> NoneV

OracleFailed(l) == l.called /\ ~Truthy(l.ret)

OracleSucceeded(l) == l.called /\ Truthy(l.ret)

\* C1: in every reachable state final_text equals the artifact among draft,
\* reviewed and proofread translation that was written most recently.
C1_FinalIsLatestArtifact == final_text = LatestArtifact

\* C2: a RunTranslate that directly follows a successful RunTranslate calls
\* the oracle again, and when that call succeeds draft_translation and
\* final_text are exactly its result.
C2_RetranslateReplaces ==
    [][ (last.op = "RunTranslate" /\ OracleSucceeded(last)
         /\ last'.op = "RunTranslate")
        => /\ last'.called
           /\ Truthy(last'.ret) =>
                 (draft_translation' = last'.ret /\ final_text' = last'.ret) ]_vars

\* C3: a StartProject that ends in a reported failure changes neither the
\* started flag nor source_text, the gold examples or any artifact.
C3_FailedStartMutatesNothing ==
    [][ (last'.op = "StartProject" /\ last'.status \in {"stop", "error"})
        => /\ Started' = Started
           /\ source_text' = source_text
           /\ Field("gold_standard_prompt")' = Field("gold_standard_prompt")
           /\ Artifacts' = Artifacts ]_vars

\* a document the reader extracts a non-empty text from
Readable(f) ==
    /\ f # NoFile
    /\ IF app = "gradio" THEN gr_read_file(f) # Raise /\ Truthy(gr_read_file(f))
       ELSE Truthy(read_file(f))

\* gold files the front end reads without refusing the whole start
GoldAccepted(g) ==
    app = "gradio" => gr_build_gold_standard_prompt(g[1], g[2]) # Raise

\* the Start button of the running front end
StartProject(g) == start_project(g[1], g[2]) \/ StStartProject(g[1], g[2])

\* C4: StartProject on a project that ArchiveProject has returned to
\* Inquiry, with a credential and a readable document, succeeds: the project
\* is Prepared with that document's text and no artifact.
C4_StartAfterArchive ==
    [][ \A g \in GoldUploads :
          (/\ hist.archived
           /\ ~Started
           /\ Truthy(env_key)
           /\ Readable(source_file)
           /\ GoldAccepted(g)
           /\ StartProject(g))
          => /\ last'.status \in {"done", "end"}
             /\ Started'
             /\ Truthy(source_text')
             /\ Artifacts' = <<NoneV, NoneV, NoneV, NoneV>> ]_vars

\* C5: once a draft exists, ManualEdit(text) leaves reviewed_translation and
\* final_text equal to text, and a successful RunEdit leaves them equal to
\* its result.
C5_EditLastCallWins ==
    /\ (last.op = "ManualEdit" /\ Truthy(draft_translation))
          => (reviewed_translation = last.text /\ final_text = last.text)
    /\ (last.op = "RunEdit" /\ OracleSucceeded(last))
          => (reviewed_translation = last.ret /\ final_text = last.ret)

\* C6: a RunTranslate, RunEdit or RunProofread whose oracle call fails
\* changes no artifact, no downstream prompt and not the page.
C6_FailedCallChangesNothing ==
    [][ (last'.op \in {"RunTranslate", "RunEdit", "RunProofread"}
         /\ OracleFailed(last'))
        => /\ Artifacts' = Artifacts
           /\ prompts' = prompts
           /\ page' = page ]_vars

\* C7: RunEdit never writes reviewed_translation while draft_translation
\* is empty.
C7_EditNeedsDraft ==
    (last.op = "RunEdit" /\ OracleSucceeded(last)) => Truthy(draft_translation)

\* C8: RunProofread never writes proofread_translation while both
\* reviewed_translation and draft_translation are empty.
C8_ProofreadNeedsText ==
    (last.op = "RunProofread" /\ OracleSucceeded(last))
       => (Truthy(reviewed_translation) \/ Truthy(draft_translation))

\* the later of reviewed and draft
LatestUpstream ==
    IF hist.upstream = "edit" THEN reviewed_translation ELSE draft_translation

\* C9: when RunProofread calls the oracle on a project with a draft, its
\* prompt is template T3 over the later of reviewed_translation and
\* draft_translation.
C9_ProofreadsLatestUpstream ==
    (last.op = "RunProofread" /\ last.called /\ Truthy(draft_translation))
       => (last.prompt.kind = "T3" /\ last.prompt.text = LatestUpstream)

\* C10: RunTranslate calls the oracle only on a started project with a
\* non-empty source_text.
C10_TranslateNeedsPrepared ==
    (last.op = "RunTranslate" /\ last.called) => (Started /\ Truthy(source_text))

---------------------------------------------------------------------------
(* Where the front ends part from the claims: the state each divergence
   reaches, and the front ends on which the claim holds as stated *)

OracleOps == {"RunTranslate", "RunEdit", "RunProofread"}

\* app_gradio.py: a manual edit after the draft leaves final_text equal to
\* none of the three artifacts
C1_FinalIsNoArtifact ==
    /\ app = "gradio"
    /\ last.op = "ManualEdit"
    /\ Truthy(draft_translation)
    /\ final_text = last.text
    /\ final_text \notin {draft_translation, reviewed_translation,
                          proofread_translation}

C1_OnStreamlit == app # "gradio" => final_text = LatestArtifact

\* translation_app.py, app_st_dev.py: a second click on Run Translation
\* makes no oracle call and keeps the first draft
C2_SecondClickIgnored ==
    /\ app # "gradio"
    /\ last.op = "RunTranslate"
    /\ ~last.called
    /\ Truthy(draft_translation)

C2_OnGradio ==
    [][ (app = "gradio" /\ last.op = "RunTranslate" /\ OracleSucceeded(last)
         /\ last'.op = "RunTranslate")
        => /\ last'.called
           /\ Truthy(last'.ret) =>
                 (draft_translation' = last'.ret /\ final_text' = last'.ret) ]_vars

\* translation_app.py, app_st_dev.py: a start that fails on an empty
\* extraction has set project_started and stored the empty source_text
C3_FailedStartLeftStarted ==
    /\ last.op = "StartProject"
    /\ last.status = "stop"
    /\ Started
    /\ source_text = ""

C3_OnGradio ==
    [][ (app = "gradio" /\ last'.op = "StartProject" /\ last'.status = "error")
        => /\ Started' = Started
           /\ source_text' = source_text
           /\ Field("gold_standard_prompt")' = Field("gold_standard_prompt")
           /\ Artifacts' = Artifacts ]_vars

\* app_st_dev.py: the start after an archive reads the deleted key
\* source_text and the run ends in an AttributeError
C4_StartAfterArchiveCrashes ==
    /\ app = "st_dev"
    /\ hist.archived
    /\ last.op = "StartProject"
    /\ last.status = "crash"

C4_ExceptStDev ==
    [][ \A g \in GoldUploads :
          (/\ app # "st_dev"
           /\ hist.archived
           /\ ~Started
           /\ Truthy(env_key)
           /\ Readable(source_file)
           /\ GoldAccepted(g)
           /\ StartProject(g))
          => /\ last'.status \in {"done", "end"}
             /\ Started'
             /\ Truthy(source_text')
             /\ Artifacts' = <<NoneV, NoneV, NoneV, NoneV>> ]_vars

\* app_gradio.py: a manual edit changes final_text and leaves
\* reviewed_translation as it was
C5_ManualEditSkipsReviewed ==
    /\ app = "gradio"
    /\ last.op = "ManualEdit"
    /\ Truthy(draft_translation)
    /\ final_text = last.text
    /\ reviewed_translation # last.text

\* translation_app.py, app_st_dev.py: the text area still holds an earlier
\* manual edit, which overwrites the result of the RunEdit that just succeeded
C5_StaleManualEditWins ==
    /\ app # "gradio"
    /\ last.op = "RunEdit"
    /\ OracleSucceeded(last)
    /\ reviewed_translation # last.ret
    /\ reviewed_translation = manual_edit.value

\* translation_app.py, app_st_dev.py: the run of a failed oracle call applies
\* the cleared text area again and empties the final_text a proofread had set
C6_FailedCallEmptiesFinal ==
    /\ app # "gradio"
    /\ last.op \in OracleOps
    /\ OracleFailed(last)
    /\ Truthy(proofread_translation)
    /\ final_text = ""

C6_OnGradio ==
    [][ (app = "gradio" /\ last'.op \in OracleOps /\ OracleFailed(last'))
        => /\ Artifacts' = Artifacts
           /\ prompts' = prompts
           /\ page' = page ]_vars

\* on the Streamlit front ends C6 fails only while the text area is cleared
C6_OnStreamlitUnlessCleared ==
    [][ (/\ app # "gradio"
         /\ last'.op \in OracleOps
         /\ OracleFailed(last')
         /\ ~(manual_edit.live /\ manual_edit.value = ""))
        => /\ Artifacts' = Artifacts
           /\ prompts' = prompts
           /\ page' = page ]_vars

\* app_gradio.py: Step 5 run on a prompt typed by the user writes
\* reviewed_translation with no draft
C7_ReviewedWithoutDraft ==
    /\ app = "gradio"
    /\ last.op = "RunEdit"
    /\ OracleSucceeded(last)
    /\ ~Truthy(draft_translation)
    /\ reviewed_translation = last.ret

C7_OnStreamlit ==
    (app # "gradio" /\ last.op = "RunEdit" /\ last.called) => Truthy(draft_translation)

\* app_gradio.py: Step 6 run after typing into the manual edit box writes
\* proofread_translation with neither draft nor reviewed text
C8_ProofreadWithoutText ==
    /\ app = "gradio"
    /\ last.op = "RunProofread"
    /\ OracleSucceeded(last)
    /\ ~Truthy(draft_translation)
    /\ ~Truthy(reviewed_translation)
    /\ proofread_translation = last.ret

C8_OnStreamlit ==
    (app # "gradio" /\ last.op = "RunProofread" /\ last.called)
       => (Truthy(reviewed_translation) \/ Truthy(draft_translation))

\* app_gradio.py: after an edit and a new translation Step 6 proofreads the
\* text of the edit, not the new draft
C9_ProofreadsStaleText ==
    /\ app = "gradio"
    /\ last.op = "RunProofread"
    /\ OracleSucceeded(last)
    /\ hist.upstream = "translate"
    /\ last.prompt.kind = "T3"
    /\ last.prompt.text # draft_translation

\* app_gradio.py: directly after RunTranslate the Step 6 prompt is empty
C9_ProofreadsNothing ==
    /\ app = "gradio"
    /\ last.op = "RunProofread"
    /\ last.called
    /\ Truthy(draft_translation)
    /\ hist.upstream = "translate"
    /\ last.prompt.kind = "empty"

\* on the Streamlit front ends C9 fails only for a reviewed text that a
\* manual edit has emptied
C9_OnStreamlitUnlessCleared ==
    (app # "gradio" /\ last.op = "RunProofread" /\ last.called
     /\ Truthy(LatestUpstream))
       => (last.prompt.kind = "T3" /\ last.prompt.text = LatestUpstream)

\* translation_app.py, app_st_dev.py: Run Translation calls the oracle on
\* the empty source_text a failed start has stored
C10_TranslatesEmptySource ==
    /\ app # "gradio"
    /\ last.op = "RunTranslate"
    /\ last.called
    /\ source_text = ""

C10_OnGradio ==
    (app = "gradio" /\ last.op = "RunTranslate" /\ last.called)
       => (Started /\ Truthy(source_text))

---------------------------------------------------------------------------
(* Manual edit: frame; delivery *)

\* C11: a ManualEdit changes neither draft_translation nor an existing
\* proofread_translation, nor source_text, the gold examples, the stage or
\* the translate and edit prompts; on app_gradio.py it regenerates the
\* proofread prompt from the typed text.
C11_ManualEditFrame ==
    [][ last'.op = "ManualEdit"
        => /\ draft_translation' = draft_translation
           /\ proofread_translation' = proofread_translation
           /\ source_text' = source_text
           /\ Field("gold_standard_prompt")' = Field("gold_standard_prompt")
           /\ Started' = Started
           /\ prompts'.p4 = prompts.p4
           /\ prompts'.p5 = prompts.p5
           /\ app = "gradio" =>
                 prompts'.p6 = generate_step_6_prompt(langs.target_lang, last'.text) ]_vars

\* a manual edit made after a proofread: final_text is the typed text, the
\* proofread text is still there
C11_EditAfterProofread ==
    /\ last.op = "ManualEdit"
    /\ Truthy(proofread_translation)
    /\ final_text = last.text
    /\ final_text # proofread_translation

\* C12: PrepareDownload hands over a file only when final_text is non-empty;
\* with no final_text it reports the missing text, hands over nothing and
\* changes no project state.
C12_DownloadNeedsFinalText ==
    [][ last'.op = "PrepareDownload"
        => /\ delivered' # NoDocx => Truthy(final_text)
           /\ ~Truthy(final_text)
                => /\ delivered' = NoDocx
                   /\ last'.status = "warning"
                   /\ ss' = ss
                   /\ Started' = Started
                   /\ UNCHANGED <<prompts, hist, manual_edit, source_file>> ]_vars

\* Prepare Download pressed on a started project that has no final_text yet
C12_DownloadRefused ==
    /\ last.op = "PrepareDownload"
    /\ Started
    /\ Truthy(source_text)
    /\ ~Truthy(final_text)
    /\ last.status = "warning"
    /\ delivered = NoDocx

\* the paragraphs put back together, a newline between two of them
RECURSIVE JoinLines(_)
JoinLines(paragraphs) ==
    IF Len(paragraphs) = 0 THEN <<>>
    ELSE IF Len(paragraphs) = 1 THEN paragraphs[1]
    ELSE paragraphs[1] \o <<"\n">> \o JoinLines(Tail(paragraphs))

\* paragraphs are the lines of text t, blank lines included
IsLinesOf(paragraphs, t) ==
    /\ Len(paragraphs) >= 1
    /\ \A i \in 1..Len(paragraphs) : Positions(paragraphs[i], "\n") = {}
    /\ JoinLines(paragraphs) = Chars(t)

\* C13: a PrepareDownload that directly follows ManualEdit(x), x not empty,
\* hands over a document whose paragraphs are the lines of x in order, one
\* empty paragraph per blank line.
C13_DownloadHasEditedLines ==
    [][ (last.op = "ManualEdit" /\ Truthy(last.text) /\ last'.op = "PrepareDownload")
        => IsLinesOf(delivered'.paragraphs, last.text) ]_vars

\* translation_app.py, app_st_dev.py: after ManualEdit(x) the download button
\* holds the lines of another text
C13_EditedTextNotInDownload ==
    /\ app # "gradio"
    /\ last.op = "ManualEdit"
    /\ Truthy(last.text)
    /\ "download" \in page
    /\ ~IsLinesOf(download.paragraphs, last.text)

C13_OnGradio ==
    [][ (app = "gradio" /\ last.op = "ManualEdit" /\ Truthy(last.text)
         /\ last'.op = "PrepareDownload")
        => IsLinesOf(delivered'.paragraphs, last.text) ]_vars

\* app_gradio.py: the document of a text with a blank line has an empty
\* paragraph in its place
C13_BlankLineKept ==
    /\ last.op = "PrepareDownload"
    /\ delivered.paragraphs = <<<<"m">>, <<>>, <<"n">>>>

\* the name without its extension: what stands before the last dot
IsStemOf(stem, name) ==
    \E k \in Positions(name, ".") :
        /\ stem = SubSeq(name, 1, k - 1)
        /\ \A j \in Positions(name, ".") : j <= k

\* C14: the file PrepareDownload hands over is named translated_<stem>.docx,
\* <stem> the name without extension of the document the project was
\* started with.
C14_DownloadNamedAfterSource ==
    [][ (last'.op = "PrepareDownload" /\ delivered' # NoDocx)
        => \E n \in 1..Len(FileName(hist.origin)) :
              /\ IsStemOf(SubSeq(FileName(hist.origin), 1, n), FileName(hist.origin))
              /\ delivered'.name =
                    <<"t", "r", "a", "n", "s", "l", "a", "t", "e", "d", "_">>
                    \o SubSeq(FileName(hist.origin), 1, n)
                    \o <<".", "d", "o", "c", "x">> ]_vars

\* translation_app.py, app_st_dev.py: the file is named after the document
\* the upload control holds now, not the one the project was started with
C14_NamedAfterLaterUpload ==
    /\ app # "gradio"
    /\ last.op = "PrepareDownload"
    /\ hist.origin # NoFile
    /\ source_file # hist.origin
    /\ delivered.name = download_file_name(splitext(FileName(source_file)))
    /\ delivered.name # download_file_name(splitext(FileName(hist.origin)))

\* app_gradio.py: the file carries the random part of the temporary name and
\* a second extension
C14_NamedAsTemporaryFile ==
    /\ app = "gradio"
    /\ last.op = "PrepareDownload"
    /\ \E tag \in TempTags :
          delivered.name = download_file_name(splitext(FileName(hist.origin)))
                           \o tag \o DocxSuffix

\* on the Streamlit front ends the name is right as long as the upload
\* control still holds the document the project was started with
C14_OnStreamlitSameUpload ==
    [][ (app # "gradio" /\ last'.op = "PrepareDownload" /\ delivered' # NoDocx
         /\ source_file = hist.origin)
        => delivered'.name = download_file_name(splitext(FileName(hist.origin))) ]_vars

---------------------------------------------------------------------------
(* Archive; credential; languages *)

ProjectKeys == {"source_text", "gold_standard_prompt", "translation_step_4",
                "translation_step_5", "translation_step_6", "final_text"}

\* the value a Project field has before any project was started
InitialValue(k) == IF k = "gold_standard_prompt" THEN "" ELSE NoneV

\* the oracle credential: the key of the environment, and on the Streamlit
\* front ends the copy the session keeps of it
Credential == <<env_key, IF app = "gradio" THEN NoneV ELSE Field("api_key")>>

Identity == <<Field("username"), Field("authenticated"), Field("last_activity")>>

\* C15: ArchiveProject returns the project to Inquiry with every Project
\* field at its initial empty value, leaves the oracle credential and the
\* authenticated identity as they were, and appends exactly one access event.
C15_ArchiveClearsKeepsLogs ==
    [][ last'.op = "ArchiveProject"
        => /\ ~Started'
           /\ \A k \in ProjectKeys : Has(ss', k) /\ ss'[k] = InitialValue(k)
           /\ Credential' = Credential
           /\ Identity' = Identity
           /\ Len(log') = Len(log) + 1
           /\ SubSeq(log', 1, Len(log)) = log ]_vars

\* app_gradio.py, translation_app.py: a project with a final text was
\* archived and no access event was recorded
C15_ArchivedWithoutEvent ==
    /\ app # "st_dev"
    /\ last.op = "ArchiveProject"
    /\ hist.archived
    /\ ~Started
    /\ log = <<>>

\* app_st_dev.py: the archive removed the Project fields from the session
\* instead of resetting them
C15_ArchivedFieldsMissing ==
    /\ app = "st_dev"
    /\ last.op = "ArchiveProject"
    /\ \A k \in ProjectKeys : ~Has(ss, k)

\* on every front end the archive ends the project, leaves no artifact, no
\* source text and no gold examples, and keeps credential and identity
C15_ArchiveClears ==
    [][ last'.op = "ArchiveProject"
        => /\ ~Started'
           /\ \A k \in ProjectKeys : ~Truthy(Field(k)')
           /\ Credential' = Credential
           /\ Identity' = Identity ]_vars

\* app_st_dev.py appends exactly one access event, under the name of the
\* user who is logged in
C15_OnStDevOneEvent ==
    [][ (app = "st_dev" /\ last'.op = "ArchiveProject")
        => /\ log' = Append(log, [username |-> Field("username"),
                                  event |-> "Submitted feedback and archived project."])
           /\ Field("username") \in DOMAIN UserDB ]_vars

\* app_st_dev.py: an archive in the log, the user still logged in
C15_ArchiveLogged ==
    /\ app = "st_dev"
    /\ last.op = "ArchiveProject"
    /\ Len(log) >= 2
    /\ log[Len(log)].event = "Submitted feedback and archived project."
    /\ Field("authenticated") = TRUE
    /\ Truthy(Field("api_key"))

\* no oracle credential is configured
NoCredential == ~Truthy(env_key) /\ ~Truthy(Field("api_key"))

OracleActions == {"RunTranslate", "RunEdit", "RunProofread"}

\* C16: with no oracle credential no action invokes the oracle or changes an
\* artifact, and Start Project and every translate, edit and proofread
\* action end in an error shown to the user, never in a crash; also after an
\* archive or a logout.
C16_NoCredentialNoOracle ==
    [][ NoCredential
        => /\ NoCredential'
           /\ ~last'.called
           /\ Artifacts' = Artifacts
           /\ \A i \in 1..4 : ~Truthy(Artifacts[i])
           /\ last'.op \in OracleActions \cup {"StartProject"}
                 => last'.status \in {"stop", "error"} ]_vars

\* app_st_dev.py: no credential, a logout behind, a new login and Start
\* Project pressed on an uploaded document: the missing key is reported
C16_RefusedAfterLogout ==
    /\ NoCredential
    /\ app = "st_dev"
    /\ \E i \in 1..Len(log) : log[i].event = "Logged out"
    /\ last.op = "StartProject"
    /\ source_file = "alpha"
    /\ last.status = "stop"
    /\ ~last.called
    /\ ~Started

\* app_gradio.py: Start Project without a credential raises the error
C16_RefusedOnGradio ==
    /\ NoCredential
    /\ app = "gradio"
    /\ last.op = "StartProject"
    /\ source_file = "alpha"
    /\ last.status = "error"

\* the actions that end a project or a session
EndingActions == {"ArchiveProject", "Logout", "Timeout"}

\* C17: once a StartProject has extracted source_text, no action other than
\* ArchiveProject or a logout changes it: not a re-render, a changed upload,
\* another press of Start, RunTranslate, RunEdit, ManualEdit or RunProofread.
C17_SourceTextImmutable ==
    [][ (Started /\ Truthy(source_text) /\ last'.op \notin EndingActions)
        => source_text' = source_text ]_vars

\* a started project whose upload control was given another document: the
\* source text is still the one of the first document
C17_UploadChangedTextKept ==
    /\ Started
    /\ last.op = "Upload"
    /\ hist.origin = "alpha"
    /\ source_file = "gamma"
    /\ source_text = read_file("alpha")
    /\ Truthy(draft_translation)

\* the prompts the program writes: translate, edit, proofread
Templates == {"T1", "T2", "T3"}

\* the language pair the project was started with
ProjectLangs == hist.langs

\* the prompt names the languages l: both in a translate or edit prompt, the
\* target language in a proofread prompt
UsesLangs(prompt, l) ==
    /\ prompt.target_lang = l.target_lang
    /\ prompt.kind \in {"T1", "T2"} => prompt.source_lang = l.source_lang

\* C18: every translate, edit and proofread prompt the program writes and
\* sends to the oracle in a started project names the language pair that was
\* selected when the project was started.
C18_PromptsUseProjectLangs ==
    [][ (last'.op \in OracleActions /\ last'.called /\ last'.prompt.kind \in Templates)
        => UsesLangs(last'.prompt, ProjectLangs) ]_vars

\* translation_app.py, app_st_dev.py: a project started as English to
\* Portuguese sends a prompt for Portuguese to English
C18_PromptInOtherLangs ==
    /\ app # "gradio"
    /\ last.op \in OracleActions
    /\ last.called
    /\ hist.langs = DefaultLangs
    /\ last.prompt.source_lang = "Portuguese"
    /\ last.prompt.target_lang = "English"

\* on app_gradio.py the prompts name the pair of the start
C18_OnGradio ==
    [][ (app = "gradio" /\ last'.op \in OracleActions /\ last'.called
         /\ last'.prompt.kind \in Templates)
        => UsesLangs(last'.prompt, ProjectLangs) ]_vars

\* app_gradio.py: a project started as Portuguese to English proofreads in
\* English
C18_GradioKeepsPair ==
    /\ app = "gradio"
    /\ last.op = "RunProofread"
    /\ last.called
    /\ last.prompt.kind = "T3"
    /\ hist.langs.source_lang = "Portuguese"
    /\ last.prompt.target_lang = "English"

\* on the Streamlit front ends a prompt names the pair the select boxes show
\* when the button is pressed
C18_OnStreamlitCurrentPair ==
    [][ (app # "gradio" /\ last'.op \in OracleActions /\ last'.called)
        => UsesLangs(last'.prompt, langs) ]_vars

---------------------------------------------------------------------------
(* Gold examples *)

\* the text the running front end reads from a gold file
GoldText(f) == IF app = "gradio" THEN gr_read_file(f) ELSE read_file(f)

\* the file is read and has text
HasText(f) == GoldText(f) # Raise /\ Truthy(GoldText(f))

\* the pairs the two lists make
Pairs(g) == 1..Min(Len(g.en), Len(g.pt))

\* one example block, as the external-interface format writes it
ExampleBlock(i, en_text, pt_text) ==
    "\n--- Gold Standard Example " \o ToString(i) \o " ---\n[English]:\n" \o en_text
    \o "\n[Portuguese]:\n" \o pt_text \o "\n--- End Example ---\n"

\* the blocks of pairs 1..n that have text on both sides, each under its
\* position in the lists
RECURSIVE ExampleBlocks(_, _)
ExampleBlocks(g, n) ==
    IF n = 0 THEN ""
    ELSE ExampleBlocks(g, n - 1)
         \o (IF HasText(g.en[n]) /\ HasText(g.pt[n])
             THEN ExampleBlock(n, GoldText(g.en[n]), GoldText(g.pt[n])) ELSE "")

ExpectedGoldPrompt(g) ==
    IF Len(g.en) = 0 \/ Len(g.pt) = 0 THEN ""
    ELSE "\n\nHere are some 'gold standard' examples of English-to-Portuguese translations to guide your tone and terminology. Follow these examples closely:\n"
         \o ExampleBlocks(g, Min(Len(g.en), Len(g.pt)))

\* Start Project pressed on a first project that has a credential and a
\* source document with text
FirstStart ==
    /\ last'.op = "StartProject"
    /\ ~Started
    /\ ~Truthy(source_text)
    /\ Truthy(env_key)
    /\ Readable(source_file)

\* C19: the gold prompt of a started project is empty when either list of
\* gold files is empty; otherwise it is the header followed by one block per
\* pair i = 1..min(len(en), len(pt)), in order, of the i-th English and the
\* i-th Portuguese text; lists of different lengths do not stop the start.
C19_GoldPromptOfFirstPairs ==
    [][ (FirstStart /\ \A i \in Pairs(hist'.gold) :
                          HasText(hist'.gold.en[i]) /\ HasText(hist'.gold.pt[i]))
        => /\ Started'
           /\ Field("gold_standard_prompt")' = ExpectedGoldPrompt(hist'.gold)
           /\ (Len(hist'.gold.en) = 0 \/ Len(hist'.gold.pt) = 0)
                 => Field("gold_standard_prompt")' = "" ]_vars

\* two English files and one Portuguese file: the project is started and
\* the prompt has the block of the first pair only
C19_UnequalListsTruncated ==
    /\ last.op = "StartProject"
    /\ Started
    /\ hist.gold = [en |-> <<"alpha", "beta">>, pt |-> <<"beta">>]
    /\ Field("gold_standard_prompt") = GoldHeader \o GoldBlock(1, "s1", "s2\n")

\* two pairs: both blocks, in the order of the lists
C19_TwoPairsInOrder ==
    /\ last.op = "StartProject"
    /\ Started
    /\ hist.gold = [en |-> <<"alpha", "beta">>, pt |-> <<"beta", "alpha">>]
    /\ Field("gold_standard_prompt")
          = GoldHeader \o GoldBlock(1, "s1", "s2\n") \o GoldBlock(2, "s2\n", "s1")

\* English files only: no gold prompt
C19_OneSideEmpty ==
    /\ last.op = "StartProject"
    /\ Started
    /\ hist.gold = [en |-> <<"alpha">>, pt |-> <<>>]
    /\ Field("gold_standard_prompt") = ""

\* some pair of the lists lacks a text on one side
SomePairSkipped(g) ==
    \E i \in Pairs(g) : ~(HasText(g.en[i]) /\ HasText(g.pt[i]))

\* C20: a pair of gold files of which one cannot be read or has no text adds
\* no block; the other pairs are in the prompt, each under its 1-based
\* position in the lists, and the project still starts.
C20_BadPairSkipped ==
    [][ (FirstStart /\ SomePairSkipped(hist'.gold))
        => /\ Started'
           /\ Field("gold_standard_prompt")' = ExpectedGoldPrompt(hist'.gold) ]_vars

\* app_gradio.py: a gold file that cannot be read ends the start in an error
C20_StartRefusedForGoldFile ==
    /\ app = "gradio"
    /\ last.op = "StartProject"
    /\ last.status = "error"
    /\ Truthy(env_key)
    /\ Readable(source_file)
    /\ hist.gold = [en |-> <<"delta", "alpha">>, pt |-> <<"beta", "beta">>]
    /\ ~Started

\* on the Streamlit front ends the pair is skipped and the project starts
C20_OnStreamlit ==
    [][ (app # "gradio" /\ FirstStart /\ SomePairSkipped(hist'.gold))
        => /\ Started'
           /\ Field("gold_standard_prompt")' = ExpectedGoldPrompt(hist'.gold) ]_vars

\* the unreadable first pair is left out, the second keeps the label 2
C20_SecondPairKeepsLabel ==
    /\ app # "gradio"
    /\ last.op = "StartProject"
    /\ Started
    /\ hist.gold = [en |-> <<"delta", "alpha">>, pt |-> <<"beta", "beta">>]
    /\ Field("gold_standard_prompt") = GoldHeader \o GoldBlock(2, "s1", "s2\n")

\* on app_gradio.py a pair without text is skipped as long as every file of
\* the pairs can be read
C20_OnGradioEmptySkipped ==
    [][ (app = "gradio" /\ FirstStart /\ SomePairSkipped(hist'.gold)
         /\ \A i \in Pairs(hist'.gold) :
               gr_read_file(hist'.gold.en[i]) # Raise /\ gr_read_file(hist'.gold.pt[i]) # Raise)
        => /\ Started'
           /\ Field("gold_standard_prompt")' = ExpectedGoldPrompt(hist'.gold) ]_vars

\* app_gradio.py: the scanned pdf gives no block, the project starts
C20_GradioSkipsEmpty ==
    /\ app = "gradio"
    /\ last.op = "StartProject"
    /\ Started
    /\ hist.gold = [en |-> <<"gamma", "alpha">>, pt |-> <<"beta", "beta">>]
    /\ Field("gold_standard_prompt") = GoldHeader \o GoldBlock(2, "s1", "s2\n")

---------------------------------------------------------------------------
(* Failures; sessions; the gate *)

\* C21: no action ends in an unhandled failure: a script run or a handler
\* never stops on an exception it does not catch, such as the read of a
\* session field that does not exist.
C21_NoUnhandledFailure == last.status # "crash"

\* app_st_dev.py: after an archive the Project fields are gone from the
\* session, and the next run that reaches Step 2 stops on the missing
\* source_text
C21_RunStopsOnMissingField ==
    /\ app = "st_dev"
    /\ last.status = "crash"
    /\ hist.archived
    /\ Field("authenticated") = TRUE
    /\ ~Has(ss, "source_text")
    /\ Has(ss, "project_started")

\* app_gradio.py and translation_app.py have no such run
C21_OnGradioAndPlainStreamlit == app # "st_dev" => last.status # "crash"

\* app_st_dev.py: every run of a session that has not archived a project
\* ends handled
C21_OnStDevBeforeArchive ==
    (app = "st_dev" /\ ~hist.archived) => last.status # "crash"

---------------------------------------------------------------------------
(* Two sessions                                                             *)

\* the project fields of a session state; a field not set reads as None
ProjectOf(s) ==
    [k \in {"source_text", "translation_step_4", "translation_step_5",
            "translation_step_6", "final_text"} |-> IF Has(s, k) THEN s[k] ELSE NoneV]

C23_LoginIffCredentialsMatch ==
    [][last'.op = "Login" =>
       \A user \in LoginNames, password \in LoginPasswords :
          StLogin(user, password) =>
             IF user \in DOMAIN UserDB /\ UserDB[user].password = password
             THEN /\ ss'["authenticated"] = TRUE
                  /\ Has(ss', "username") /\ ss'["username"] = user
                  /\ log' = Append(log, [username |-> user, event |-> "Logged in"])
             ELSE /\ ss'["authenticated"] = FALSE
                  /\ ~Has(ss', "username")
                  /\ "login_error" \in page' /\ last'.status = "stop"
                  /\ log' = log]_vars

\* a login was accepted
C23_LoginAccepted ==
    /\ last.op = "Login" /\ Field("authenticated") = TRUE /\ Field("username") = "ana"

\* a login was refused
C23_LoginRefused ==
    /\ last.op = "Login" /\ Field("authenticated") = FALSE /\ "login_error" \in page

\* the session fields that are there, with their values
FieldsOf(s) == {<<k, s[k]>> : k \in DOMAIN s \cap ProjectKeys}

\* C24: a session is expired exactly when it has no recorded last activity
\* or more than 15 minutes have passed since it; a request that arrives on
\* an expired authenticated session logs the user out and performs no
\* workflow action in that request: no oracle call is made, nothing is
\* written to a project field and nothing but the logout is logged.  A
\* request within the threshold is served.
C24_ExpiredRequestOnlyLogsOut ==
    [][app = "st_dev" =>
       /\ \A e \in IdleTimes :
             is_session_expired(ss, [NoInput EXCEPT !.elapsed = e])
                <=> (~Has(ss, "last_activity") \/ e > 15 * 60)
       /\ last'.op \in {"Timeout", "Refresh"} =>
             \A e \in IdleTimes, t \in IdleTriggers :
                (/\ last'.op = (IF e > 15 * 60 THEN "Timeout" ELSE "Refresh")
                 /\ StSessionTimeout(e, t)) =>
                   IF e > 15 * 60
                   THEN /\ ss'["authenticated"] = FALSE
                        /\ "login" \in page'
                        /\ ~last'.called
                        /\ FieldsOf(ss') = {}
                        /\ log' = Append(log, [username |-> ss["username"],
                                               event |-> "Logged out"])
                   ELSE /\ ss'["authenticated"] = TRUE
                        /\ "login" \notin page'
                        /\ \A i \in 1..Len(log') :
                              \/ log'[i].event # "Logged out"
                              \/ (i <= Len(log) /\ log[i] = log'[i])]_vars

\* the session of a project with a draft timed out
C24_TimedOutWithDraft ==
    /\ last.op = "Timeout" /\ Field("authenticated") = FALSE /\ "login" \in page
    /\ Len(log) >= 2 /\ log[Len(log)].event = "Logged out"
    /\ ~Has(ss, "translation_step_4")

---------------------------------------------------------------------------
(* The access log as a file: log_event writes a line, read_logs parses the  *)
(* lines back.  log holds what was written, entry by entry; the file is its *)
(* lines one after the other.                                               *)

\* the user names that write to the log: names users.json can hold ("Add
\* User" takes any non-empty name), and ADMIN of the admin panel
LogNames == {"ana", "a:b", " c", "ADMIN"}

LogEvents == {"Logged in", "Logged out", "Created new user: ana"}

NameChars(u) ==
    CASE u = "ana"   -> <<"a", "n", "a">>
      [] u = "eve"   -> <<"e", "v", "e">>
      [] u = "a:b"   -> <<"a", ":", "b">>
      [] u = " c"    -> <<" ", "c">>
      [] OTHER       -> <<"A", "D", "M", "I", "N">>

EventChars(e) ==
    CASE e = "Logged in"  -> <<"L", "o", "g", "g", "e", "d", " ", "i", "n">>
      [] e = "Logged out" -> <<"L", "o", "g", "g", "e", "d", " ", "o", "u", "t">>
      [] e = "Created new user: ana" ->
             <<"C", "r", "e", "a", "t", "e", "d", " ", "n", "e", "w", " ",
               "u", "s", "e", "r", ":", " ", "a", "n", "a">>
      [] e = "Submitted feedback and archived project." ->
             <<"S", "u", "b", "m", "i", "t", "t", "e", "d", ".">>
      [] OTHER -> <<"C", "o", "m", "p", "l", "e", "t", "e", "d", " ", "-", ">">>

\* strftime("%Y-%m-%d %H:%M:%S"): digits, dashes, a space and colons
TimeStamp == <<"1", "-", "2", " ", "3", ":", "4">>

\* f"[{timestamp}] {username}: {event}\n"
log_line(entry) ==
    <<"[">> \o TimeStamp \o <<"]", " ">> \o NameChars(entry.username) \o <<":", " ">>
        \o EventChars(entry.event) \o <<"\n">>

\* access_log.txt after the entries es were written
RECURSIVE FileOf(_)
FileOf(es) == IF es = <<>> THEN <<>> ELSE log_line(Head(es)) \o FileOf(Tail(es))

access_log == FileOf(log)

WhiteSpace == {" ", "\n", "\t"}

\* str.strip() with the set of characters to strip
RECURSIVE strip(_, _)
strip(cs, S) ==
    IF cs = <<>> THEN cs
    ELSE IF Head(cs) \in S THEN strip(Tail(cs), S)
    ELSE IF cs[Len(cs)] \in S THEN strip(SubSeq(cs, 1, Len(cs) - 1), S)
    ELSE cs

\* where "] " starts in cs
BracketSpace(cs) == {i \in 1..(Len(cs) - 1) : cs[i] = "]" /\ cs[i + 1] = " "}

\* the two unpackings of read_logs succeed: the line has a "] " and a ":"
\* after it
Parses(line) ==
    LET l == strip(line, WhiteSpace)
    IN /\ BracketSpace(l) # {}
       /\ Positions(SubSeq(l, First(BracketSpace(l)) + 2, Len(l)), ":") # {}

\* the dict read_logs makes of a line
ParsedLine(line) ==
    LET l    == strip(line, WhiteSpace)
        i    == First(BracketSpace(l))
        rest == SubSeq(l, i + 2, Len(l))
        j    == First(Positions(rest, ":"))
    IN [timestamp |-> strip(SubSeq(l, 1, i - 1), {"["}),
        username  |-> strip(SubSeq(rest, 1, j - 1), WhiteSpace),
        event     |-> strip(SubSeq(rest, j + 1, Len(rest)), WhiteSpace)]

RECURSIVE ParseLines(_)
ParseLines(lines) ==
    IF lines = <<>> THEN <<>>
    ELSE (IF Parses(Head(lines)) THEN <<ParsedLine(Head(lines))>> ELSE <<>>)
            \o ParseLines(Tail(lines))

\* read_logs(): a line that does not parse is left out
read_logs(file) == ParseLines(split(file, "\n"))

\* what was written, as read_logs should return it
Written(es) ==
    [i \in 1..Len(es) |-> [timestamp |-> TimeStamp,
                           username  |-> NameChars(es[i].username),
                           event     |-> EventChars(es[i].event)]]

\* a recordEvent of some user of the server: another session, or the admin
\* panel
LogEvent(username, event) ==
    /\ Len(log) <= MaxLog
    /\ log' = log_event([log |-> log], username, event).log
    /\ UNCHANGED <<app, env_key, ss, source_file, manual_edit, prompts, page, last, hist,
                   download, delivered, langs, peer>>
    /\ NoAdmin

LogInit == Init /\ app = "st_dev"

LogNext ==
    \/ \E username \in LogNames, event \in LogEvents : LogEvent(username, event)
    \/ StLogin("ana", "pw")
    \/ StLogout

LogSpec == LogInit /\ [][LogNext]_vars

\* C25: the access log is append-only: every recordEvent adds one entry at
\* the end, no operation removes or rewrites an entry, and read_logs returns
\* the recorded entries in append order with the username and the event
\* that were written.
C25_LogAppendOnlyAndReadBack ==
    [][/\ Len(log') = Len(log) + 1
       /\ SubSeq(log', 1, Len(log)) = log
       /\ access_log' = access_log \o log_line(log'[Len(log')])
       /\ read_logs(access_log') = Written(log')]_vars

\* no operation of the front end removes or rewrites an entry
C25_AppendOnly ==
    [][/\ Len(log') >= Len(log)
       /\ SubSeq(log', 1, Len(log)) = log
       /\ SubSeq(access_log', 1, Len(access_log)) = access_log]_vars

\* a name read_logs returns as it was written: no colon in it, no white
\* space at its ends
PlainName(u) ==
    /\ Positions(NameChars(u), ":") = {}
    /\ strip(NameChars(u), WhiteSpace) = NameChars(u)

\* as long as every name in the log is plain, C25 holds
C25_PlainNamesReadBack ==
    [][(\A i \in 1..Len(log') : PlainName(log'[i].username))
       => /\ Len(log') = Len(log) + 1
          /\ SubSeq(log', 1, Len(log)) = log
          /\ read_logs(access_log') = Written(log')]_vars

\* an entry of a user whose name has a colon was written, and read_logs
\* returns another name and another event for it
C25_NameWithColonReadBack ==
    /\ log # <<>>
    /\ log[Len(log)] = [username |-> "a:b", event |-> "Logged in"]
    /\ Len(read_logs(access_log)) = Len(log)
    /\ read_logs(access_log)[Len(log)].username = <<"a">>
    /\ read_logs(access_log)[Len(log)].event = <<"b", ":", " ">> \o EventChars("Logged in")

---------------------------------------------------------------------------
(* The edit prompt; the stage; logout; the completion event                 *)

\* prompt p is template T2 filled with source text src and draft text
IsEditPromptOf(p, src, text) ==
    /\ p.kind = "T2" /\ p.src = src /\ p.text = text /\ Truthy(text)

\* C26: whenever RunEdit invokes the oracle, its prompt is T2 built from
\* source_text and the current draft_translation, the result of the most
\* recent successful RunTranslate; a successful RunTranslate regenerates
\* the stored edit prompt from the new draft.
C26_EditPromptFromCurrentDraft ==
    [][/\ (last'.op = "RunEdit" /\ last'.called)
            => IsEditPromptOf(last'.prompt, source_text, draft_translation)
       /\ (app = "gradio" /\ last'.op = "RunTranslate" /\ OracleSucceeded(last'))
            => /\ draft_translation' = last'.ret
               /\ IsEditPromptOf(prompts'.p5, source_text', last'.ret)]_vars

\* on the Streamlit front ends C26 holds: the prompt is formatted from the
\* session state in the run that sends it
C26_OnStreamlit ==
    [][(app # "gradio" /\ last'.op = "RunEdit" /\ last'.called)
          => IsEditPromptOf(last'.prompt, source_text, draft_translation)]_vars

\* on gradio a generated edit prompt in the box is the one of the current
\* source text and draft, and a successful RunTranslate regenerates it
C26_OnGradioGeneratedPrompt ==
    [][app = "gradio" =>
       /\ (last'.op = "RunEdit" /\ last'.called /\ prompts.p5.kind = "T2")
            => IsEditPromptOf(last'.prompt, source_text, draft_translation)
       /\ (last'.op = "RunTranslate" /\ OracleSucceeded(last'))
            => /\ draft_translation' = last'.ret
               /\ IsEditPromptOf(prompts'.p5, source_text', last'.ret)]_vars

\* RunEdit sent an empty prompt box to the oracle: there is no draft yet
C26_EditWithoutDraft ==
    /\ app = "gradio" /\ last.op = "RunEdit" /\ last.called
    /\ last.prompt.kind = "empty" /\ ~Truthy(draft_translation)

\* RunEdit sent the prompt of the current draft after a second translation
C26_EditAfterRetranslation ==
    /\ app = "gradio" /\ last.op = "RunEdit" /\ OracleSucceeded(last)
    /\ IsEditPromptOf(last.prompt, source_text, draft_translation)
    /\ draft_translation = "b"

\* the actions of the workflow that are not ArchiveProject
StageActions == {"RunTranslate", "RunEdit", "ManualEdit", "RunProofread", "PrepareDownload"}

\* every artifact that was there is still there
ArtifactsKept ==
    /\ Truthy(draft_translation) => Truthy(draft_translation')
    /\ Truthy(reviewed_translation) => Truthy(reviewed_translation')
    /\ Truthy(proofread_translation) => Truthy(proofread_translation')

ClearedByHand == last'.op = "ManualEdit" /\ last'.text = ""

C27_ReviewedEmptied ==
    /\ last.op = "ManualEdit" /\ last.text = ""
    /\ reviewed_translation = "" /\ Truthy(draft_translation)

LoggedOut(s) ==
    IF Has(s, "api_key") /\ Truthy(s["api_key"])
    THEN ("authenticated" :> FALSE) @@ ("api_key" :> s["api_key"])
    ELSE "authenticated" :> FALSE

\* no project is to be seen: every project field has its initial value and
\* no widget holds anything
EmptyProject ==
    /\ \A k \in ProjectKeys : Has(ss, k) /\ ss[k] = InitialValue(k)
    /\ ss["project_started"] = FALSE
    /\ source_file = NoFile /\ manual_edit = NoWidget /\ download = NoDocx

\* C28: logout, explicit or by timeout, records a 'Logged out' event for
\* the current user, removes every session field including all project
\* artifacts, leaves authenticated = false and keeps only a non-empty
\* oracle credential; a user who logs in afterwards starts with an empty
\* Project and sees nothing of the previous user's project.
C28_LogoutClearsSession ==
    [][/\ last'.op \in {"Logout", "Timeout"}
            => /\ log' = Append(log, [username |-> ss["username"], event |-> "Logged out"])
               /\ ss' = LoggedOut(ss)
               /\ source_file' = NoFile /\ manual_edit' = NoWidget /\ download' = NoDocx
               /\ page' = {"login"}
       /\ (last'.op = "Login" /\ ss'["authenticated"]) => EmptyProject']_vars

\* a user with a finished translation logged out
C28_LoggedOutOfProject ==
    /\ last.op = "Logout" /\ ss = LoggedOut(ss)
    /\ Len(log) = 3 /\ log[3].event = "Logged out" /\ log[2].event # "Logged in"
    /\ log[2].event # "Submitted feedback and archived project."

\* a user logged in after a logout
C28_LoggedInAfterLogout ==
    /\ last.op = "Login" /\ Field("authenticated") = TRUE /\ EmptyProject
    /\ Len(log) = 3 /\ log[2].event = "Logged out"

\* a 'Completed translation <source>-><target>' line
IsCompleted(e) ==
    e.event \notin {"Logged in", "Logged out", "Submitted feedback and archived project."}

\* a line that ends a project: the archive, or a logout
EndsProject(e) ==
    e.event \in {"Logged out", "Submitted feedback and archived project."}

\* no two 'Completed translation' lines without the end of a project
\* between them
AtMostOncePerProject(lg) ==
    \A i, j \in 1..Len(lg) :
        (i < j /\ IsCompleted(lg[i]) /\ IsCompleted(lg[j]))
            => \E k \in (i + 1)..(j - 1) : EndsProject(lg[k])

\* the current project has its 'Completed translation' line
CompletedLogged(lg) ==
    \E i \in 1..Len(lg) :
        IsCompleted(lg[i]) /\ \A k \in (i + 1)..Len(lg) : ~EndsProject(lg[k])

\* C29: the 'Completed translation' event is recorded at most once per
\* project: between a StartProject and the next ArchiveProject it is
\* written the first time final_text becomes non-empty and never again,
\* whatever translate, edit, manual-edit or proofread actions follow; after
\* ArchiveProject the next project can be started and record it once more.
C29_CompletedOncePerProject ==
    [][app = "st_dev" =>
       /\ AtMostOncePerProject(log')
       /\ (Truthy(final_text') /\ ~CompletedLogged(log))
            => \E l \in LangChoices :
                  log' = Append(log, [username |-> ss["username"],
                                      event |-> "Completed translation "
                                                  \o l.source_lang \o "->" \o l.target_lang])
       /\ (hist.archived /\ last'.op = "StartProject") => last'.status # "crash"]_vars

\* but for the start of the next project, C29 holds
C29_OncePerProjectWhileItRuns ==
    [][app = "st_dev" =>
       /\ AtMostOncePerProject(log')
       /\ (Truthy(final_text') /\ ~CompletedLogged(log))
            => /\ Len(log') = Len(log) + 1
               /\ SubSeq(log', 1, Len(log)) = log
               /\ IsCompleted(log'[Len(log')])
               /\ log'[Len(log')].username = ss["username"]
       /\ Truthy(final_text') => CompletedLogged(log')]_vars

\* the project was completed and archived, and the next one does not start
C29_NextProjectDoesNotStart ==
    /\ app = "st_dev" /\ last.op = "StartProject" /\ last.status = "crash"
    /\ Len(log) = 3 /\ IsCompleted(log[2])
    /\ log[3].event = "Submitted feedback and archived project."

\* the event is in the log once, and an edit and a proofread followed it
C29_LoggedOnceThenMoreWork ==
    /\ app = "st_dev" /\ last.op = "RunProofread" /\ OracleSucceeded(last)
    /\ Truthy(reviewed_translation)
    /\ Len(log) = 2 /\ IsCompleted(log[2])

\* C30: in the authenticated front end no project field is mutated, no
\* oracle call is made and no document is produced while authenticated is
\* false; and in every reachable state authenticated = true implies that
\* username and last_activity are set, after ArchiveProject too.
C30_GateGuardsProject ==
    [][app = "st_dev" =>
       /\ ss'["authenticated"] => (Has(ss', "username") /\ Has(ss', "last_activity"))
       /\ ~ss["authenticated"]
            => /\ ~last'.called
               /\ download' = NoDocx /\ delivered' = NoDocx
               /\ \A k \in ProjectKeys : Has(ss', k) => ss'[k] = InitialValue(k)
               /\ ~ss'["authenticated"] => FieldsOf(ss') = FieldsOf(ss)]_vars

\* the project was archived and the user is still known
C30_ArchivedStillIdentified ==
    /\ app = "st_dev" /\ last.op = "ArchiveProject" /\ hist.archived
    /\ Field("authenticated") = TRUE
    /\ Field("username") = "ana" /\ Has(ss, "last_activity")

\* a login was refused on a session that was logged out before
C30_RefusedAtGate ==
    /\ app = "st_dev" /\ last.op = "Login" /\ Field("authenticated") = FALSE
    /\ Len(log) >= 2 /\ log[Len(log)].event = "Logged out"
    /\ FieldsOf(ss) = {}

---------------------------------------------------------------------------
(* The admin panel.  admin_panel is defined in app_st_dev.py and called    *)
(* from no page of the repository; it is modelled as the page that calls   *)
(* it.  One press of "Add User" is three steps of the run: the table is    *)
(* loaded and the form judged, the table is saved, the event is logged.    *)

\* os.getenv("ADMIN_PASSWORD"), set
ADMIN_PASSWORD == "root"

\* what is typed into the admin password field
AdminEntered == {"root", "bad"}

\* what is typed into the form
NewUsers == {"", "ana", "bob", "cy"}

NewPasswords == {"", "pw2"}

Roles == {"user", "admin"}

\* the table users.json holds
UserTable == load_users(users).table

\* "Add User", were it to skip the test for an existing name
add_user_overwrites(table, new_user, new_pass, role) ==
    IF new_user = "" \/ new_pass = "" THEN [status |-> "error", table |-> table]
    ELSE [status |-> "run",
          table |-> Put(table, new_user, [password |-> new_pass, role |-> role])]

\* if st.button("Add User"): the two refusals, or the new entry in the dict
add_user(table, new_user, new_pass, role) ==
    IF new_user \in DOMAIN table THEN [status |-> "error", table |-> table]
    ELSE IF new_user = "" \/ new_pass = "" THEN [status |-> "error", table |-> table]
    ELSE [status |-> "run",
          table |-> Put(table, new_user, [password |-> new_pass, role |-> role])]

\* the admin page touches nothing of the translation page
NoTranslation ==
    UNCHANGED <<app, env_key, ss, source_file, manual_edit, prompts, page, last, hist,
                download, delivered, langs, peer>>

\* admin session i presses "Add User": the password gate, load_users(), the
\* refusals; an accepted form leaves the run before save_users
AdminAddUser(i, entered, new_user, new_pass, role) ==
    /\ app = "st_dev"
    /\ admin[i].pc = "idle"
    /\ IF entered # ADMIN_PASSWORD
       THEN /\ admin' = [admin EXCEPT ![i] = [IdleAdmin EXCEPT !.status = "warning"]]
            /\ UNCHANGED users
       ELSE LET loaded == load_users(users)
                r      == add_user(loaded.table, new_user, new_pass, role)
            IN /\ users' = loaded.file
               /\ admin' = [admin EXCEPT ![i] =
                              IF r.status = "error"
                              THEN [IdleAdmin EXCEPT !.status = "error"]
                              ELSE [pc |-> "save", users |-> r.table,
                                    new_user |-> new_user, status |-> "run"]]
    /\ UNCHANGED log
    /\ NoTranslation

\* save_users(users)
AdminSave(i) ==
    /\ admin[i].pc = "save"
    /\ users' = save_users(admin[i].users)
    /\ admin' = [admin EXCEPT ![i].pc = "log"]
    /\ UNCHANGED log
    /\ NoTranslation

\* log_event("ADMIN", ...); st.success; st.rerun()
AdminLog(i) ==
    /\ admin[i].pc = "log"
    /\ Len(log) < MaxLog
    /\ log' = log_event([log |-> log], "ADMIN",
                        "Created new user: " \o admin[i].new_user).log
    /\ admin' = [admin EXCEPT ![i] = [IdleAdmin EXCEPT !.new_user = admin[i].new_user,
                                                       !.status = "added"]]
    /\ UNCHANGED users
    /\ NoTranslation

\* one admin session; users.json may be missing at first
AdminInit == Init /\ app = "st_dev"

\* users.json is deleted by hand
RemoveUsersFile ==
    /\ app = "st_dev"
    /\ users.exists /\ \A i \in AdminSessions : admin[i].pc = "idle"
    /\ log = <<>>
    /\ users' = NoUsersFile
    /\ UNCHANGED <<log, admin>>
    /\ NoTranslation

AdminNext ==
    \/ \E entered \in AdminEntered, new_user \in NewUsers, new_pass \in NewPasswords,
          role \in Roles : AdminAddUser(1, entered, new_user, new_pass, role)
    \/ AdminSave(1)
    \/ AdminLog(1)
    \/ RemoveUsersFile

AdminSpec == AdminInit /\ [][AdminNext]_vars

\* C31: an "Add User" whose name is already in the table, or whose name or
\* password is empty, ends in an error and leaves the user table and the
\* event log as they were; an accepted one saves the table with exactly that
\* user added under the given password and role, every other account kept,
\* and then logs one "Created new user" event of ADMIN.
C31_AddUserCheckedAndExact ==
    [][/\ \A entered \in AdminEntered, new_user \in NewUsers, new_pass \in NewPasswords, role \in Roles :
            (entered = ADMIN_PASSWORD /\ AdminAddUser(1, entered, new_user, new_pass, role)) =>
               /\ UserTable' = UserTable
               /\ log' = log
               /\ IF new_user \in DOMAIN UserTable \/ new_user = "" \/ new_pass = ""
                  THEN admin'[1].pc = "idle" /\ admin'[1].status = "error"
                  ELSE /\ admin'[1].pc = "save"
                       /\ admin'[1].new_user = new_user
                       /\ admin'[1].users =
                            Put(UserTable, new_user, [password |-> new_pass, role |-> role])
       /\ AdminSave(1) =>
            LET n == admin[1].new_user
            IN /\ n \notin DOMAIN UserTable
               /\ DOMAIN UserTable' = DOMAIN UserTable \cup {n}
               /\ UserTable'[n] = admin[1].users[n]
               /\ \A u \in DOMAIN UserTable : UserTable'[u] = UserTable[u]
               /\ log' = log
       /\ AdminLog(1) =>
            /\ log' = Append(log, [username |-> "ADMIN",
                                   event |-> "Created new user: " \o admin[1].new_user])
            /\ users' = users
      ]_vars

\* bob was added as an admin beside ana, and the event is in the log
C31_BobAdded ==
    /\ admin[1].status = "added" /\ admin[1].new_user = "bob"
    /\ DOMAIN UserTable = {"ana", "bob"}
    /\ UserTable["bob"] = [password |-> "pw2", role |-> "admin"]
    /\ UserTable["ana"] = UserDB["ana"]
    /\ log = <<[username |-> "ADMIN", event |-> "Created new user: bob"]>>

\* two admin sessions, their loads, saves and log lines interleaved
RaceNext ==
    \E i \in AdminSessions :
        \/ \E entered \in AdminEntered, new_user \in NewUsers, new_pass \in NewPasswords,
              role \in Roles : AdminAddUser(i, entered, new_user, new_pass, role)
        \/ AdminSave(i)
        \/ AdminLog(i)

RaceSpec == AdminInit /\ [][RaceNext]_vars

\* C32: when both sessions have completed a successful "Add User", for
\* different names, users.json holds both new users, however their loads and
\* saves were interleaved.
C32_NoLostUpdate ==
    (/\ admin[1].status = "added" /\ admin[2].status = "added"
     /\ admin[1].new_user # admin[2].new_user)
        => {admin[1].new_user, admin[2].new_user} \subseteq DOMAIN UserTable

\* both adds succeeded and were logged, and bob is not in users.json
C32_BobLost ==
    /\ admin[1].status = "added" /\ admin[1].new_user = "bob"
    /\ admin[2].status = "added" /\ admin[2].new_user = "cy"
    /\ \E j \in 1..Len(log) : log[j] = [username |-> "ADMIN", event |-> "Created new user: bob"]
    /\ \E j \in 1..Len(log) : log[j] = [username |-> "ADMIN", event |-> "Created new user: cy"]
    /\ DOMAIN UserTable = {"ana", "cy"}

\* C32, the part that holds: a save made from a table that still has every
\* account of users.json loses none and adds the session's new user.
C32_NoLossWhenLoadIsCurrent ==
    [][\A i \in AdminSessions :
          (AdminSave(i) /\ DOMAIN UserTable \subseteq DOMAIN admin[i].users) =>
              /\ \A u \in DOMAIN UserTable : u \in DOMAIN UserTable'
              /\ admin[i].new_user \in DOMAIN UserTable'
      ]_vars

\* both sessions added a user one after the other, and both are in users.json
C32_BothAddedInTurn ==
    /\ admin[1].status = "added" /\ admin[1].new_user = "bob"
    /\ admin[2].status = "added" /\ admin[2].new_user = "cy"
    /\ DOMAIN UserTable = {"ana", "bob", "cy"}

====
